---- MODULE Spec2Model ----
(***************************************************************************)
(* A model of the clippy repository's utilities:                           *)
(*   unpack.py   - splits an archive text into files (unpack_file)         *)
(*   scaninc.py  - packs a root file and its local includes (main)         *)
(*   clippy.py   - provider payload builders and the HTTP client           *)
(* Texts are sequences of one-character strings, so that the regular       *)
(* expressions of the code are evaluated character by character.           *)
(***************************************************************************)
EXTENDS Integers, Sequences, FiniteSets, TLC

VARIABLES
    pc,              \* position of the running program
    dirs,            \* file system: the directories below the working directory
    files,           \* file system: path -> content of every regular file
    dirs0,           \* the directories when the program started
    content,         \* unpack_file: the text read from source_stream
    matches,         \* unpack_file: the matches of re.finditer, in order
    idx,             \* unpack_file: index of the next match of the for loop
    outcomes,        \* unpack_file: what the loop did with each match so far
    stdout,          \* unpack_file: lines printed so far
    unpacked_count,  \* unpack_file: files written
    files0,          \* the regular files when the program started
    main_cpp_file_arg,          \* scaninc main: sys.argv[1]
    output_parts,               \* scaninc main: the rendered entries
    processed_files_abs_paths,  \* scaninc main: the paths already emitted
    included_files_paths,       \* scaninc main: the paths of the include directives
    inc_i,                      \* scaninc main: index of the next include of the for loop
    packed,                     \* scaninc main: (display name, content) of each entry emitted
    stderr,                     \* scaninc main: lines written to sys.stderr
    pack_out,                   \* scaninc main: the text written to sys.stdout
    provider_type,   \* clippy: key of PROVIDER_TYPES
    model,           \* payload factory argument: model
    messages,        \* payload factory argument: messages
    max_tokens,      \* payload factory argument: max_tokens (Optional[int])
    temperature,     \* payload factory argument: temperature
    built,           \* what the payload factory returned or raised
    timeout,         \* make_request argument: timeout
    response,        \* make_request: the response session.post returned
    in_flight,       \* make_request: the exception raised inside the try block
    result,          \* make_request: what it returned or raised
    response_data,   \* response parser argument: the decoded JSON
    parsed,          \* what the response parser returned or raised
    models_configured, \* ask_cmd: config['models'] is not empty
    model_name,      \* ask_cmd: the model name, as its characters
    model_config,    \* ask_cmd: config['models'].get(model_name)
    prompt,          \* ask_cmd: the assembled prompt
    log_enabled,     \* ask_cmd: config['log_enabled']
    calls,           \* clippy: the calls made so far, in order
    diag,            \* clippy: what was printed to sys.stderr, in order
    ai_response,     \* ask_cmd: what ask_ai returned
    exit_status,     \* clippy main: the status of sys.exit, -1 while running
    log_files,       \* clippy: LOG_HISTORY_DIR, timestamp -> log_data of every <timestamp>.log
    clock,           \* clippy: int(time.time())
    config,          \* clippy: CONFIG_FILE, the stored models and default_model
    venv             \* venv_manager: the venv directory of the project

fsVars == <<dirs, files, dirs0, files0>>
unpackVars == <<content, matches, idx, outcomes, stdout, unpacked_count>>
packVars == <<main_cpp_file_arg, output_parts, processed_files_abs_paths,
              included_files_paths, inc_i, packed, stderr, pack_out>>
payloadVars == <<provider_type, model, messages, max_tokens, temperature, built>>
requestVars == <<timeout, response, in_flight, result>>
parserVars == <<response_data, parsed>>
askVars == <<models_configured, model_name, model_config, prompt, log_enabled, calls, diag, ai_response, exit_status>>
extVars == <<log_files, clock, config, venv>>
vars == <<pc, fsVars, unpackVars, packVars, payloadVars, requestVars, parserVars, askVars, extVars>>

----------------------------------------------------------------------------
(* Bounds of the model *)

\* the archive texts of the unpack specification are made of at most this many chunks
MaxChunks == 3
\* the include file contents of the pack specification have at most this many lines
MaxFileLines == 2
\* the message lists of the payload specification have at most this many messages
MaxMsgs == 3
\* the max_tokens arguments of the payload specification are None and 0..MaxTokens
MaxTokens == 2
\* the model names of the resolve specification are made of at most this many chunks
MaxNameChunks == 3
\* the display names of the path specification have at most this many characters
MaxNameLen == 4
\* the clock of the log specification runs from 1 to this second
MaxClock == 3
\* the venv specification makes at most this many calls and removals
MaxCalls == 3

----------------------------------------------------------------------------
(* Strings *)

NL == "\n"
\* the characters matched by \s and removed by str.strip()
Whitespace == {" ", "\t", "\n", "\r"}
\* the marker token of the archive format
MARKER == <<">", ">", ">", ">">>
\* os.sep
SEP == "/"

\* s has p at position i
StartsWithAt(s, i, p) ==
    /\ i + Len(p) - 1 <= Len(s)
    /\ \A k \in 1..Len(p) : s[i + k - 1] = p[k]

\* str.endswith('\n')
EndsWithNewline(s) == Len(s) > 0 /\ s[Len(s)] = NL

\* str.strip()
Strip(s) ==
    LET keep == {k \in 1..Len(s) : s[k] \notin Whitespace}
    IN  IF keep = {} THEN <<>>
        ELSE LET lo == CHOOSE k \in keep : \A j \in keep : k <= j
                 hi == CHOOSE k \in keep : \A j \in keep : k >= j
             IN  SubSeq(s, lo, hi)

\* str.split(sep): the pieces between the separators, empty pieces included
RECURSIVE Split(_, _)
Split(s, sep) ==
    LET at == {k \in 1..Len(s) : s[k] = sep}
    IN  IF at = {} THEN <<s>>
        ELSE LET k == CHOOSE j \in at : \A l \in at : j <= l
             IN  <<SubSeq(s, 1, k - 1)>> \o Split(SubSeq(s, k + 1, Len(s)), sep)

\* [part for part in parts if part not in ['', '.', '..']]
CleanParts(parts) ==
    SelectSeq(parts, LAMBDA part : part \notin {<<>>, <<".">>, <<".", ".">>})

\* all but the last element: clean_path_parts[:-1]
Front(s) == SubSeq(s, 1, Len(s) - 1)

----------------------------------------------------------------------------
(* The pattern of unpack_file:                                             *)
(*     >>>>\s*([^>]+?)\s*\n(.*?)(?=\n>>>>|\Z)       with re.DOTALL         *)
(* evaluated as the backtracking matcher evaluates it: a greedy            *)
(* quantifier tries its longest repetition first, a lazy one its shortest, *)
(* and the quantifier on the left is the last to give way.                 *)

NoMatch == [start |-> 0]

\* the position after the run of whitespace that starts at i
WsRunEnd(s, i) ==
    CHOOSE j \in i..(Len(s) + 1) :
        /\ \A k \in i..(j - 1) : s[k] \in Whitespace
        /\ (j = Len(s) + 1 \/ s[j] \notin Whitespace)

\* \s*\n can be matched from position b, its \n at position c
TailAt(s, b, c) ==
    /\ c >= b /\ c <= Len(s)
    /\ s[c] = NL
    /\ \A k \in b..(c - 1) : s[k] \in Whitespace

\* ([^>]+?) matches s[a..b-1] and \s*\n follows, its \n at position c
HeadAt(s, a, b, c) ==
    /\ b > a /\ b <= Len(s)
    /\ \A k \in a..(b - 1) : s[k] # ">"
    /\ TailAt(s, b, c)

\* (.*?)(?=\n>>>>|\Z) from position q: the position after the content
ContentEnd(s, q) ==
    CHOOSE e \in q..(Len(s) + 1) :
        /\ (e = Len(s) + 1 \/ StartsWithAt(s, e, <<NL>> \o MARKER))
        /\ \A k \in q..(e - 1) : ~StartsWithAt(s, k, <<NL>> \o MARKER)

\* the match of the pattern that starts at position i, or NoMatch
MatchAt(s, i) ==
    IF ~StartsWithAt(s, i, MARKER) THEN NoMatch
    ELSE
      LET p0 == i + Len(MARKER)
          sp == 1..(Len(s) + 1)
          \* first \s*, greedy: the name starts at the largest a that lets the rest match
          as == {a \in p0..WsRunEnd(s, p0) : \E b \in sp, c \in sp : HeadAt(s, a, b, c)}
      IN  IF as = {} THEN NoMatch
          ELSE
            LET a  == CHOOSE x \in as : \A y \in as : x >= y
                \* ([^>]+?), lazy: the shortest name
                bs == {b \in sp : \E c \in sp : HeadAt(s, a, b, c)}
                b  == CHOOSE x \in bs : \A y \in bs : x <= y
                \* second \s*, greedy: the last newline of the whitespace run
                cs == {c \in sp : HeadAt(s, a, b, c)}
                c  == CHOOSE x \in cs : \A y \in cs : x >= y
                e  == ContentEnd(s, c + 1)
            IN  [start   |-> i,
                 group1  |-> SubSeq(s, a, b - 1),
                 group2  |-> SubSeq(s, c + 1, e - 1),
                 end     |-> e]

\* re.finditer(pattern, content, re.DOTALL): the matches from position pos on
RECURSIVE FindIter(_, _)
FindIter(s, pos) ==
    IF pos > Len(s) THEN <<>>
    ELSE LET m == MatchAt(s, pos)
         IN  IF m = NoMatch THEN FindIter(s, pos + 1)
             ELSE <<m>> \o FindIter(s, m.end)

----------------------------------------------------------------------------
(* The file system *)

ROOT == <<>>

\* os.path.exists(path), path relative to the working directory
PathExists(ds, fs, path) == path = ROOT \/ path \in ds \/ path \in DOMAIN fs

\* open(path, 'w') succeeds: the parent is a directory and path is not one
CanOpenForWrite(ds, fs, path) ==
    /\ Len(path) > 0
    /\ (Front(path) = ROOT \/ Front(path) \in ds)
    /\ path \notin ds

\* WriteFile as it would be with open(path, 'a'): the text is appended
WriteFile_append(fs, path, text) ==
    [p \in DOMAIN fs \cup {path} |->
        IF p # path THEN fs[p]
        ELSE IF path \in DOMAIN fs THEN fs[path] \o text ELSE text]

\* the files after writing text to path
WriteFile(fs, path, text) ==
    [p \in DOMAIN fs \cup {path} |-> IF p = path THEN text ELSE fs[p]]

\* a lone surrogate: the character sys.stdin's surrogateescape handler gives
\* for a byte that is not UTF-8 (the handler of the C and POSIX locales)
SURROGATE == "U+DCFF"

\* outfile.write(text) succeeds on a file opened with encoding='utf-8': the
\* strict encoder raises UnicodeEncodeError on a lone surrogate
Encodable(text) == \A i \in 1..Len(text) : text[i] # SURROGATE

----------------------------------------------------------------------------
(* unpack_file: the body of the for loop, for one match m *)

\* the prefixes of a path: the directories os.makedirs(path) would create
Prefixes(path) == {SubSeq(path, 1, n) : n \in 1..Len(path)}

\* CheckDirectory as it would be with os.makedirs(output_directory, exist_ok=True)
\* in place of the existence check
CheckDirectory_makedirs(ds, fs, output_directory) ==
    [skip |-> FALSE, dirs |-> ds \cup Prefixes(output_directory)]

\* lines 66-71: the directory of the entry is checked, never created;
\* skip tells whether the entry is skipped, dirs are the directories afterwards
CheckDirectory(ds, fs, output_directory) ==
    [skip |-> output_directory # ROOT /\ ~PathExists(ds, fs, output_directory),
     dirs |-> ds]

\* what the loop body does with match m on the file system (ds, fs):
\* the new file system, the line it prints and whether a file was written
ProcessEntry(ds, fs, m) ==
    LET filename         == Strip(m.group1)
        file_content     == m.group2
        clean_path_parts == CleanParts(Split(filename, SEP))
        output_dir_parts == Front(clean_path_parts)
        output_directory == output_dir_parts
        full_output_filepath == clean_path_parts
        checked == CheckDirectory(ds, fs, output_directory)
        text == IF EndsWithNewline(file_content) THEN file_content
                ELSE file_content \o <<NL>>
        same == [dirs |-> ds, files |-> fs, written |-> FALSE, filename |-> filename,
                 path |-> <<>>, directory |-> <<>>, print |-> ""]
    IN  IF filename = <<>> THEN
            [same EXCEPT !.print = "Warning: Found an empty filename. Skipping this block."]
        ELSE IF clean_path_parts = <<>> THEN
            [same EXCEPT !.print = "Warning: Filename resulted in no valid path components. Skipping."]
        ELSE IF checked.skip THEN
            [same EXCEPT !.print = "Warning: Directory for file does not exist. Skipping this file.",
                         !.directory = output_directory]
        ELSE IF CanOpenForWrite(checked.dirs, fs, full_output_filepath) /\ ~Encodable(text) THEN
            \* line 77 has created or truncated the file, line 80 or 82 raises
            [dirs |-> checked.dirs,
             files |-> WriteFile(fs, full_output_filepath, <<>>),
             written |-> FALSE, filename |-> filename,
             path |-> full_output_filepath, directory |-> output_directory,
             print |-> "An unexpected error occurred while processing"]
        ELSE IF CanOpenForWrite(checked.dirs, fs, full_output_filepath) THEN
            [dirs |-> checked.dirs,
             files |-> WriteFile(fs, full_output_filepath, text),
             written |-> TRUE, filename |-> filename,
             path |-> full_output_filepath, directory |-> output_directory,
             print |-> "Successfully unpacked"]
        ELSE
            [same EXCEPT !.dirs = checked.dirs,
                         !.print = "Error writing file", !.path = full_output_filepath,
                         !.directory = output_directory]

----------------------------------------------------------------------------
(* Inputs of the unpack specification *)

\* the pieces an archive text is made of: marker lines, content lines, blank
\* and whitespace-only lines, a last line without its newline, an entry
\* for a whose content cannot be encoded, and an entry in the directory a
ArchiveChunks ==
    {MARKER \o <<"a", NL>>,
     MARKER \o <<"a", NL, SURROGATE>>,
     MARKER \o <<" ", "d", "/", "a", " ", NL>>,
     MARKER \o <<"a", "/", "b", NL>>,
     MARKER \o <<".", "/", ".", ".", NL>>,
     MARKER \o <<NL>>,
     <<"x", NL>>,
     <<NL>>,
     <<" ", NL>>,
     <<"x">>}

\* ''.join(chunks)
RECURSIVE Concat(_)
Concat(chunks) ==
    IF Len(chunks) = 0 THEN <<>> ELSE chunks[1] \o Concat(Tail(chunks))

ArchiveTexts ==
    {Concat(cs) : cs \in UNION {[1..n -> ArchiveChunks] : n \in 0..MaxChunks}}

PathOf(str) ==
    CASE str = "a"   -> <<<<"a">>>>
      [] str = "d"   -> <<<<"d">>>>
      [] str = "e"   -> <<<<"e">>>>
      [] str = "d/a" -> <<<<"d">>, <<"a">>>>

\* the directory trees unpack starts in: one with a directory d and a file a,
\* one where d/a is a directory and e is a regular file
InitialTrees ==
    {[dirs |-> {PathOf("d")}, files |-> [p \in {PathOf("a")} |-> <<"o", NL>>]],
     [dirs |-> {PathOf("d"), PathOf("d/a")}, files |-> [p \in {PathOf("e")} |-> <<"o", NL>>]]}

----------------------------------------------------------------------------
(* unpack_file as a state machine *)

\* unpack_file has not started
UnpackIdle ==
    /\ matches = <<>>
    /\ idx = 1
    /\ outcomes = <<>>
    /\ stdout = <<>>
    /\ unpacked_count = 0

\* scaninc has not started
PackIdle ==
    /\ main_cpp_file_arg = <<>>
    /\ output_parts = <<>>
    /\ processed_files_abs_paths = {}
    /\ included_files_paths = <<>>
    /\ inc_i = 1
    /\ packed = <<>>
    /\ stderr = <<>>
    /\ pack_out = <<>>

\* no payload factory has been called
PayloadIdle ==
    /\ provider_type = ""
    /\ model = ""
    /\ messages = <<>>
    /\ max_tokens = [isNone |-> TRUE, val |-> 0]
    /\ temperature = ""
    /\ built = [raised |-> "", value |-> <<>>, warned |-> FALSE]

\* a JSON value: a string, an object (keys to values), a list or null
JStr(str)  == [t |-> "str",  s |-> str, o |-> <<>>]
JObj(f)    == [t |-> "obj",  s |-> "",  o |-> f]
JList(seq) == [t |-> "list", s |-> "",  o |-> seq]
JNull      == [t |-> "null", s |-> "",  o |-> <<>>]

NoResponse  == [status_code |-> 0, reason |-> "", text |-> "", valid |-> FALSE, json |-> JNull]
NoException == [cls |-> "", text |-> "", status |-> 0, reason |-> "", detail |-> JNull]
NoResult    == [raised |-> NoException, value |-> JNull, returned |-> FALSE]

\* make_request has not been called
NoParse == [raised |-> "", kind |-> "", msg |-> JNull, value |-> JNull]

ParserIdle ==
    /\ response_data = JNull
    /\ parsed = NoParse

NoModelConfig == [found |-> FALSE, api_key |-> "", provider_type |-> ""]

\* an entry of the record of calls
Call(fn, args, ret) == [fn |-> fn, args |-> args, ret |-> ret]

\* Optional[str]: the default_model pointer
NoName == [set |-> FALSE, name |-> <<>>]
SomeName(name) == [set |-> TRUE, name |-> name]

\* load_config's default_config (line 233), without log_enabled
NoConfig == [models |-> <<>>, default_model |-> NoName]

NoVenv == [isdir |-> FALSE, python_exe |-> FALSE, installed |-> FALSE]

\* no log, no stored configuration, no venv
ExtIdle ==
    /\ log_files = <<>>
    /\ clock = 0
    /\ config = NoConfig
    /\ venv = NoVenv

AskIdle ==
    /\ models_configured = FALSE
    /\ model_name = <<>>
    /\ model_config = NoModelConfig
    /\ prompt = ""
    /\ log_enabled = FALSE
    /\ calls = <<>>
    /\ diag = <<>>
    /\ ai_response = JNull
    /\ exit_status = -1

RequestIdle ==
    /\ timeout = 0
    /\ response = NoResponse
    /\ in_flight = NoException
    /\ result = NoResult

InitUnpack ==
    /\ pc = "unpack_read"
    /\ ExtIdle
    /\ \E t \in InitialTrees :
          dirs = t.dirs /\ files = t.files /\ dirs0 = t.dirs /\ files0 = t.files
    /\ content \in ArchiveTexts
    /\ UnpackIdle
    /\ PackIdle
    /\ PayloadIdle
    /\ RequestIdle
    /\ ParserIdle
    /\ AskIdle

\* lines 15-36: read the stream, find the matches
UnpackRead ==
    /\ pc = "unpack_read"
    /\ matches' = FindIter(content, 1)
    /\ pc' = "unpack_loop"
    /\ stdout' = Append(stdout, "Starting to unpack")
    /\ UNCHANGED <<fsVars, extVars, packVars, payloadVars, requestVars, parserVars, askVars, content, idx, outcomes, unpacked_count>>

\* lines 39-88: one iteration of the for loop
UnpackEntry ==
    /\ pc = "unpack_loop"
    /\ idx <= Len(matches)
    /\ LET r == ProcessEntry(dirs, files, matches[idx])
       IN  /\ dirs' = r.dirs
           /\ files' = r.files
           /\ outcomes' = Append(outcomes, [written |-> r.written, filename |-> r.filename,
                                            path |-> r.path, directory |-> r.directory,
                                            print |-> r.print])
           /\ stdout' = Append(stdout, r.print)
           /\ unpacked_count' = IF r.written THEN unpacked_count + 1 ELSE unpacked_count
    /\ idx' = idx + 1
    /\ UNCHANGED <<pc, dirs0, files0, packVars, extVars, payloadVars, requestVars, parserVars, askVars, content, matches>>

\* line 90: the loop is over
UnpackComplete ==
    /\ pc = "unpack_loop"
    /\ idx > Len(matches)
    /\ pc' = "done"
    /\ stdout' = Append(stdout, "Unpacking complete.")
    /\ UNCHANGED <<fsVars, extVars, packVars, payloadVars, requestVars, parserVars, askVars, content, matches, idx, outcomes, unpacked_count>>

NextUnpack == UnpackRead \/ UnpackEntry \/ UnpackComplete

SpecUnpack == InitUnpack /\ [][NextUnpack]_vars

\* the number of runs of unpack started so far
Runs == Cardinality({k \in 1..Len(stdout) : stdout[k] = "Starting to unpack"})

\* lines 95-109, a second time: unpack is started again on the same archive
\* in the directory tree the first run left
UnpackAgain ==
    /\ pc = "done"
    /\ Runs = 1
    /\ pc' = "unpack_read"
    /\ dirs0' = dirs
    /\ files0' = files
    /\ matches' = <<>>
    /\ idx' = 1
    /\ outcomes' = <<>>
    /\ unpacked_count' = 0
    /\ UNCHANGED <<dirs, files, packVars, extVars, payloadVars, requestVars, parserVars, askVars, content, stdout>>

NextRerun == UnpackRead \/ UnpackEntry \/ UnpackComplete \/ UnpackAgain

SpecRerun == InitUnpack /\ [][NextRerun]_vars

----------------------------------------------------------------------------
(* unpack_file, lines 48-74: the path of an entry, by platform *)

\* os.sep: '/' on posix, the backslash on nt
PlatformSeps == {"/", "\\"}

\* the characters the platform takes as path separators: os.sep and os.altsep
AllSeps(sep) == IF sep = "/" THEN {"/"} ELSE {"\\", "/"}

\* os.path.join(a, b) for paths without a drive (posixpath.join, ntpath.join):
\* a rooted b replaces a, otherwise b is added after one separator
PathJoin(sep, a, b) ==
    IF b # <<>> /\ b[1] \in AllSeps(sep) THEN b
    ELSE IF a = <<>> \/ a[Len(a)] \in AllSeps(sep) THEN a \o b
    ELSE a \o <<sep>> \o b

\* os.path.join(*parts), parts not empty
RECURSIVE JoinAll(_, _)
JoinAll(sep, parts) ==
    IF Len(parts) = 1 THEN parts[1]
    ELSE PathJoin(sep, JoinAll(sep, Front(parts)), parts[Len(parts)])

\* lines 50-74: the path given to open() for the display name filename, as
\* text; none when the entry is skipped at line 53
FullOutputFilepath(sep, filename) ==
    LET output_path_parts == Split(filename, sep)
        clean_path_parts  == CleanParts(output_path_parts)
        final_filename    == clean_path_parts[Len(clean_path_parts)]
        output_dir_parts  == Front(clean_path_parts)
        output_directory  == IF output_dir_parts # <<>> THEN JoinAll(sep, output_dir_parts)
                             ELSE <<".">>
    IN  IF clean_path_parts = <<>> THEN [none |-> TRUE, directory |-> <<>>, text |-> <<>>]
        ELSE [none |-> FALSE, directory |-> output_directory,
              text |-> PathJoin(sep, output_directory, final_filename)]

\* the texts of up to n characters over the alphabet
RECURSIVE TextsUpTo(_, _)
TextsUpTo(alphabet, n) ==
    IF n = 0 THEN {<<>>}
    ELSE LET shorter == TextsUpTo(alphabet, n - 1)
         IN  shorter \cup {Append(t, c) : t \in shorter, c \in alphabet}

\* the display names: letters, dots and the separators of both platforms;
\* names with '//' are left out, ntpath.join takes what follows as a UNC drive
DisplayNames ==
    {t \in TextsUpTo({"a", ".", "/", "\\"}, MaxNameLen) :
        /\ t # <<>>
        /\ \A i \in 1..(Len(t) - 1) : ~(t[i] = "/" /\ t[i + 1] = "/")}

\* an archive of one entry with the display name
InitPath ==
    /\ pc = "path_read"
    /\ ExtIdle
    /\ dirs = {} /\ files = <<>> /\ dirs0 = {} /\ files0 = <<>>
    /\ \E name \in DisplayNames : content = MARKER \o name \o <<NL, "x", NL>>
    /\ UnpackIdle
    /\ PackIdle
    /\ PayloadIdle
    /\ RequestIdle
    /\ ParserIdle
    /\ AskIdle

\* lines 18-32: the archive is read and matched
PathRead ==
    /\ pc = "path_read"
    /\ matches' = FindIter(content, 1)
    /\ pc' = "path_loop"
    /\ UNCHANGED <<fsVars, extVars, packVars, payloadVars, requestVars, parserVars, askVars,
                   content, idx, outcomes, stdout, unpacked_count>>

\* lines 39-77 for one match, on a platform whose os.sep is sep: the path
\* given to open(), when the entry is not skipped; exists is the answer of
\* os.path.exists(output_directory)
PathEntry ==
    /\ pc = "path_loop"
    /\ idx <= Len(matches)
    /\ \E sep \in PlatformSeps, exists \in BOOLEAN :
          LET filename == Strip(matches[idx].group1)
              target   == FullOutputFilepath(sep, filename)
              skipped  == \/ filename = <<>>
                          \/ target.none
                          \/ (target.directory # <<".">> /\ ~exists)
          IN  outcomes' = Append(outcomes, [os_sep |-> sep, filename |-> filename,
                                            opened |-> ~skipped, path |-> target.text])
    /\ idx' = idx + 1
    /\ UNCHANGED <<pc, fsVars, extVars, packVars, payloadVars, requestVars, parserVars, askVars,
                   content, matches, stdout, unpacked_count>>

\* line 90: the loop is over
PathComplete ==
    /\ pc = "path_loop"
    /\ idx > Len(matches)
    /\ pc' = "path_done"
    /\ UNCHANGED <<fsVars, extVars, unpackVars, packVars, payloadVars, requestVars, parserVars, askVars, content>>

NextPath == PathRead \/ PathEntry \/ PathComplete

SpecPath == InitPath /\ [][NextPath]_vars

----------------------------------------------------------------------------
(* scaninc.py: the include scanner and packer *)

INCLUDE == <<"#", "i", "n", "c", "l", "u", "d", "e">>
QUOTE == "\""

\* the match of  #include\s+"([^"]+)"  that starts at position i, or NoMatch
IncludeAt(s, i) ==
    IF ~StartsWithAt(s, i, INCLUDE) THEN NoMatch
    ELSE
      LET w0 == i + Len(INCLUDE)
          w1 == WsRunEnd(s, w0)
          closes == {k \in (w1 + 1)..Len(s) : s[k] = QUOTE}
      IN  IF w1 = w0 \/ w1 > Len(s) THEN NoMatch
          ELSE IF s[w1] # QUOTE \/ closes = {} THEN NoMatch
          ELSE LET c == CHOOSE x \in closes : \A y \in closes : x <= y
               IN  IF c = w1 + 1 THEN NoMatch
                   ELSE [start |-> i, group1 |-> SubSeq(s, w1 + 1, c - 1), end |-> c + 1]

\* extract_non_system_includes: re.findall, the paths in order of appearance
RECURSIVE FindAllIncludes(_, _)
FindAllIncludes(s, pos) ==
    LET hits == {i \in pos..Len(s) : IncludeAt(s, i) # NoMatch}
    IN  IF hits = {} THEN <<>>
        ELSE LET i == CHOOSE x \in hits : \A y \in hits : x <= y
                 m == IncludeAt(s, i)
             IN  <<m.group1>> \o FindAllIncludes(s, m.end)

extract_non_system_includes(text) == FindAllIncludes(text, 1)

\* os.path.normpath on the components of a relative path: '' and '.' are
\* dropped, '..' removes the component before it (or stays, above the
\* working directory)
RECURSIVE NormPath(_, _)
NormPath(parts, acc) ==
    IF parts = <<>> THEN acc
    ELSE LET h == Head(parts)
         IN  IF h \in {<<>>, <<".">>} THEN NormPath(Tail(parts), acc)
             ELSE IF h = <<".", ".">> /\ acc # <<>> /\ acc[Len(acc)] # <<".", ".">>
                  THEN NormPath(Tail(parts), Front(acc))
             ELSE NormPath(Tail(parts), Append(acc, h))

\* os.path.abspath(os.path.join(os.getcwd(), path)) for a relative path, as
\* the components below the working directory
AbsPath(path) == NormPath(Split(path, SEP), <<>>)

\* read_file_content: the content, or None with a line on stderr
ReadFileContent(ds, fs, abs) ==
    IF abs \in DOMAIN fs THEN [none |-> FALSE, text |-> fs[abs], err |-> ""]
    ELSE IF abs \in ds \/ abs = ROOT THEN [none |-> TRUE, text |-> <<>>, err |-> "Error reading file"]
    ELSE [none |-> TRUE, text |-> <<>>, err |-> "Warning: File not found"]

\* f">>>>{name}\n{text}"
RenderEntry(name, text) == MARKER \o name \o <<NL>> \o text

\* "\n".join(parts)
RECURSIVE JoinNL(_)
JoinNL(parts) ==
    IF Len(parts) = 0 THEN <<>>
    ELSE IF Len(parts) = 1 THEN parts[1]
    ELSE parts[1] \o <<NL>> \o JoinNL(Tail(parts))

\* lines 95-99 without the final newline of lines 98-99
PackOutput_join_only(parts) == JoinNL(parts)

\* lines 95-99: the text written to stdout
PackOutput(parts) ==
    JoinNL(parts) \o
    (IF parts # <<>> /\ ~EndsWithNewline(parts[Len(parts)]) THEN <<NL>> ELSE <<>>)

\* lines 50-71: the root file is read and emitted, its includes are scanned
PackReadRoot ==
    /\ pc = "pack_start"
    /\ LET main_cpp_abs_path == AbsPath(main_cpp_file_arg)
           main_cpp_content  == ReadFileContent(dirs, files, main_cpp_abs_path)
       IN  IF main_cpp_content.none
           THEN /\ stderr' = stderr \o <<main_cpp_content.err,
                                         "Error: Could not read the main C++ file">>
                /\ pc' = "pack_exit_1"
                /\ UNCHANGED <<output_parts, processed_files_abs_paths,
                               included_files_paths, packed>>
           ELSE /\ output_parts' =
                      Append(output_parts, RenderEntry(main_cpp_file_arg, main_cpp_content.text))
                /\ packed' = Append(packed, [name |-> main_cpp_file_arg,
                                             abs  |-> main_cpp_abs_path,
                                             text |-> main_cpp_content.text])
                /\ processed_files_abs_paths' = processed_files_abs_paths \cup {main_cpp_abs_path}
                /\ included_files_paths' = extract_non_system_includes(main_cpp_content.text)
                /\ pc' = "pack_loop"
                /\ UNCHANGED stderr
    /\ UNCHANGED <<fsVars, extVars, unpackVars, payloadVars, requestVars, parserVars, askVars, main_cpp_file_arg, inc_i, pack_out>>

\* lines 74-92 without the test of lines 81-83
PackInclude_no_duplicate_test ==
    /\ pc = "pack_loop"
    /\ inc_i <= Len(included_files_paths)
    /\ LET include_path_from_cpp == included_files_paths[inc_i]
           full_include_abs_path == AbsPath(include_path_from_cpp)
           included_content      == ReadFileContent(dirs, files, full_include_abs_path)
       IN  IF included_content.none
           THEN /\ stderr' = Append(stderr, included_content.err)
                /\ UNCHANGED <<output_parts, processed_files_abs_paths, packed>>
           ELSE /\ output_parts' =
                      Append(output_parts, RenderEntry(include_path_from_cpp, included_content.text))
                /\ packed' = Append(packed, [name |-> include_path_from_cpp,
                                             abs  |-> full_include_abs_path,
                                             text |-> included_content.text])
                /\ processed_files_abs_paths' =
                      processed_files_abs_paths \cup {full_include_abs_path}
                /\ UNCHANGED stderr
    /\ inc_i' = inc_i + 1
    /\ UNCHANGED <<pc, fsVars, extVars, unpackVars, payloadVars, requestVars, parserVars, askVars,
                   main_cpp_file_arg, included_files_paths, pack_out>>

\* lines 74-92 as they would be if an include that cannot be read ended the
\* run as the root file does (lines 62-64)
PackInclude_fatal_on_unreadable ==
    /\ pc = "pack_loop"
    /\ inc_i <= Len(included_files_paths)
    /\ LET include_path_from_cpp == included_files_paths[inc_i]
           full_include_abs_path == AbsPath(include_path_from_cpp)
           included_content      == ReadFileContent(dirs, files, full_include_abs_path)
       IN  IF full_include_abs_path \in processed_files_abs_paths
           THEN /\ stderr' = Append(stderr, "Warning: Skipping duplicate or already processed include")
                /\ UNCHANGED <<pc, output_parts, processed_files_abs_paths, packed>>
           ELSE IF included_content.none
           THEN /\ stderr' = Append(stderr, included_content.err)
                /\ pc' = "pack_exit_1"
                /\ UNCHANGED <<output_parts, processed_files_abs_paths, packed>>
           ELSE /\ output_parts' =
                      Append(output_parts, RenderEntry(include_path_from_cpp, included_content.text))
                /\ packed' = Append(packed, [name |-> include_path_from_cpp,
                                             abs  |-> full_include_abs_path,
                                             text |-> included_content.text])
                /\ processed_files_abs_paths' =
                      processed_files_abs_paths \cup {full_include_abs_path}
                /\ UNCHANGED <<pc, stderr>>
    /\ inc_i' = inc_i + 1
    /\ UNCHANGED <<fsVars, extVars, unpackVars, payloadVars, requestVars, parserVars, askVars,
                   main_cpp_file_arg, included_files_paths, pack_out>>

\* lines 74-92: one iteration of the loop over the include paths
PackInclude ==
    /\ pc = "pack_loop"
    /\ inc_i <= Len(included_files_paths)
    /\ LET include_path_from_cpp == included_files_paths[inc_i]
           full_include_abs_path == AbsPath(include_path_from_cpp)
           included_content      == ReadFileContent(dirs, files, full_include_abs_path)
       IN  IF full_include_abs_path \in processed_files_abs_paths
           THEN /\ stderr' = Append(stderr, "Warning: Skipping duplicate or already processed include")
                /\ UNCHANGED <<output_parts, processed_files_abs_paths, packed>>
           ELSE IF included_content.none
           THEN /\ stderr' = Append(stderr, included_content.err)
                /\ UNCHANGED <<output_parts, processed_files_abs_paths, packed>>
           ELSE /\ output_parts' =
                      Append(output_parts, RenderEntry(include_path_from_cpp, included_content.text))
                /\ packed' = Append(packed, [name |-> include_path_from_cpp,
                                             abs  |-> full_include_abs_path,
                                             text |-> included_content.text])
                /\ processed_files_abs_paths' =
                      processed_files_abs_paths \cup {full_include_abs_path}
                /\ UNCHANGED stderr
    /\ inc_i' = inc_i + 1
    /\ UNCHANGED <<pc, fsVars, extVars, unpackVars, payloadVars, requestVars, parserVars, askVars, main_cpp_file_arg, included_files_paths, pack_out>>

\* lines 95-99: the archive is written to stdout
PackWrite ==
    /\ pc = "pack_loop"
    /\ inc_i > Len(included_files_paths)
    /\ pack_out' = PackOutput(output_parts)
    /\ pc' = "pack_done"
    /\ UNCHANGED <<fsVars, extVars, unpackVars, payloadVars, requestVars, parserVars, askVars, main_cpp_file_arg, output_parts,
                   processed_files_abs_paths, included_files_paths, inc_i, packed, stderr>>

\* unpack.py lines 107-109: unpack reads the archive pack wrote, from stdin,
\* in the same working directory
UnpackFromStdin ==
    /\ pc = "pack_done"
    /\ content' = pack_out
    /\ pc' = "unpack_read"
    /\ UNCHANGED <<fsVars, extVars, packVars, payloadVars, requestVars, parserVars, askVars, matches, idx, outcomes, stdout, unpacked_count>>

----------------------------------------------------------------------------
(* Inputs of the pack specification *)

\* #include "path"
Directive(path) == INCLUDE \o <<" ", QUOTE>> \o path \o <<QUOTE>>

NameA  == <<"a">>
NameDB == <<"d", "/", "b">>
NameR  == <<"r">>

\* sys.argv[1]: the file r, a name with no file, the directory d
RootArgs == {NameR, <<"m">>, <<"d">>}

\* the contents of the root file r: two includes; a path included twice under
\* two names and a last line without newline; a leading blank line; a missing
\* file; the root including itself; a directory; no include; the empty file
RootContents ==
    {Directive(NameA) \o <<NL>> \o Directive(NameDB) \o <<NL>>,
     Directive(NameA) \o <<NL>> \o Directive(<<".", "/", "a">>) \o <<NL, "x">>,
     <<NL>> \o Directive(NameDB) \o <<NL>>,
     Directive(<<"m">>) \o <<NL>> \o Directive(NameA) \o <<NL>>,
     Directive(NameR) \o <<NL>> \o Directive(NameA),
     Directive(<<"d">>) \o <<NL>> \o Directive(NameA) \o <<NL>>,
     <<"x", NL>>,
     <<>>}

\* the contents of the include file a: up to MaxFileLines pieces, each a line,
\* a blank line, a line without its newline or an include directive of its own
FileChunks == {<<"x", NL>>, <<NL>>, <<"x">>, Directive(NameDB) \o <<NL>>}
FileContents ==
    {Concat(cs) : cs \in UNION {[1..n -> FileChunks] : n \in 0..MaxFileLines}}

InitPack ==
    /\ pc = "pack_start"
    /\ ExtIdle
    /\ dirs = {PathOf("d")}
    /\ \E root \in RootContents, ca \in FileContents, cb \in {<<>>, <<"y", NL>>} :
          files = [p \in {<<NameR>>, PathOf("a"), <<<<"d">>, <<"b">>>>} |->
                      IF p = <<NameR>> THEN root
                      ELSE IF p = PathOf("a") THEN ca ELSE cb]
    /\ dirs0 = dirs
    /\ files0 = files
    /\ content = <<>>
    /\ UnpackIdle
    /\ main_cpp_file_arg \in RootArgs
    /\ output_parts = <<>>
    /\ processed_files_abs_paths = {}
    /\ included_files_paths = <<>>
    /\ inc_i = 1
    /\ packed = <<>>
    /\ stderr = <<>>
    /\ pack_out = <<>>
    /\ PayloadIdle
    /\ RequestIdle
    /\ ParserIdle
    /\ AskIdle

\* scaninc.py r | unpack.py
NextPack ==
    \/ PackReadRoot \/ PackInclude \/ PackWrite
    \/ UnpackFromStdin \/ UnpackRead \/ UnpackEntry \/ UnpackComplete

SpecPack == InitPack /\ [][NextPack]_vars

----------------------------------------------------------------------------
(* clippy.py: the payload factories of the provider profiles *)

\* Optional[int]
None == [isNone |-> TRUE, val |-> 0]
Some(n) == [isNone |-> FALSE, val |-> n]

\* the value of max_tokens that _anthropic_payload falls back to
DefaultMaxTokens == 1024

\* _openai_payload as it would be with "if max_tokens:" in place of
\* "if max_tokens is not None:"
_openai_payload_truthy(mdl, msgs, maxtok, temp) ==
    LET payload == [model |-> mdl, messages |-> msgs, temperature |-> temp]
    IN  [raised |-> "",
         value  |-> IF ~maxtok.isNone /\ maxtok.val # 0
                    THEN ("max_tokens" :> maxtok.val) @@ payload
                    ELSE payload,
         warned |-> FALSE]

\* _openai_payload (lines 162-165)
_openai_payload(mdl, msgs, maxtok, temp) ==
    LET payload == [model |-> mdl, messages |-> msgs, temperature |-> temp]
    IN  [raised |-> "",
         value  |-> IF ~maxtok.isNone THEN ("max_tokens" :> maxtok.val) @@ payload
                    ELSE payload,
         warned |-> FALSE]

\* next((msg["content"] for msg in messages if msg["role"] == "system"), None):
\* the content of the first system message, as (found, content)
FirstSystemPrompt(msgs) ==
    LET at == {k \in 1..Len(msgs) : msgs[k].role = "system"}
    IN  IF at = {} THEN [isNone |-> TRUE, val |-> ""]
        ELSE [isNone |-> FALSE,
              val |-> msgs[CHOOSE k \in at : \A j \in at : k <= j].content]

\* the truth value of an Optional[str]: None and '' are false
TruthyStr(opt) == ~opt.isNone /\ opt.val # ""

\* the truth value of an Optional[int]: None and 0 are false
TruthyInt(opt) == ~opt.isNone /\ opt.val # 0

\* max_tokens or 1024 (line 201)
MaxTokensOrDefault(maxtok) == IF TruthyInt(maxtok) THEN maxtok.val ELSE DefaultMaxTokens

\* line 188: while user_messages and user_messages[0]["role"] == "assistant": pop(0)
RECURSIVE DropLeadingAssistant(_)
DropLeadingAssistant(msgs) ==
    IF msgs # <<>> /\ msgs[1].role = "assistant" THEN DropLeadingAssistant(Tail(msgs))
    ELSE msgs

\* CollapseRoles as it would be without the comparison with last_role
CollapseRoles_keep_all(msgs, valid_messages, last_role) == valid_messages \o msgs

\* lines 189-194: a message is kept when its role differs from the last kept role
RECURSIVE CollapseRoles(_, _, _)
CollapseRoles(msgs, valid_messages, last_role) ==
    IF msgs = <<>> THEN valid_messages
    ELSE IF msgs[1].role # last_role
         THEN CollapseRoles(Tail(msgs), Append(valid_messages, msgs[1]), msgs[1].role)
         ELSE CollapseRoles(Tail(msgs), valid_messages, last_role)

\* the message substituted when only a system prompt was given (line 198)
PlaceholderMessage == [role |-> "user", content |-> "..."]

\* _anthropic_payload (lines 184-203)
_anthropic_payload(mdl, msgs, maxtok, temp) ==
    LET system_prompt  == FirstSystemPrompt(msgs)
        user_messages  == DropLeadingAssistant(
                              SelectSeq(msgs, LAMBDA msg : msg.role \in {"user", "assistant"}))
        valid_messages == CollapseRoles(user_messages, <<>>, "None")
        substitute     == valid_messages = <<>> /\ TruthyStr(system_prompt)
        final_messages == IF substitute THEN <<PlaceholderMessage>> ELSE valid_messages
        payload == [model |-> mdl, max_tokens |-> MaxTokensOrDefault(maxtok),
                    messages |-> final_messages, temperature |-> temp]
    IN  IF valid_messages = <<>> /\ ~TruthyStr(system_prompt)
        THEN [raised |-> "ValueError", value |-> <<>>, warned |-> FALSE]
        ELSE [raised |-> "",
              value  |-> IF TruthyStr(system_prompt)
                         THEN ("system" :> system_prompt.val) @@ payload
                         ELSE payload,
              warned |-> substitute]

\* PROVIDER_TYPES[provider_type].payload_factory (lines 217-221)
PayloadFactory(ptype, mdl, msgs, maxtok, temp) ==
    IF ptype = "anthropic" THEN _anthropic_payload(mdl, msgs, maxtok, temp)
    ELSE _openai_payload(mdl, msgs, maxtok, temp)

\* the keys of PROVIDER_TYPES
ProviderKeys == {"openai", "google", "anthropic"}

(* Inputs of the payload specification *)

Roles == {"system", "user", "assistant"}
Contents == {"", "hi"}
Messages == [role : Roles, content : Contents]
MessageLists == UNION {[1..n -> Messages] : n \in 0..MaxMsgs}
MaxTokensArgs == {None} \cup {Some(n) : n \in 0..MaxTokens}

InitPayload ==
    /\ pc = "payload_start"
    /\ ExtIdle
    /\ provider_type \in ProviderKeys
    /\ model = "m-1"
    /\ messages \in MessageLists
    /\ max_tokens \in MaxTokensArgs
    /\ temperature = "0.7"
    /\ built = [raised |-> "", value |-> <<>>, warned |-> FALSE]
    /\ dirs = {} /\ files = <<>> /\ dirs0 = {} /\ files0 = <<>>
    /\ content = <<>>
    /\ UnpackIdle
    /\ PackIdle
    /\ RequestIdle
    /\ ParserIdle
    /\ AskIdle

\* provider.payload_factory(model, messages, max_tokens, temperature)
CallPayloadFactory ==
    /\ pc = "payload_start"
    /\ built' = PayloadFactory(provider_type, model, messages, max_tokens, temperature)
    /\ pc' = IF built'.raised = "" THEN "payload_built" ELSE "payload_raised"
    /\ UNCHANGED <<fsVars, extVars, unpackVars, packVars, requestVars, parserVars, askVars, provider_type, model, messages,
                   max_tokens, temperature>>

NextPayload == CallPayloadFactory

SpecPayload == InitPayload /\ [][NextPayload]_vars

----------------------------------------------------------------------------
(* clippy.py: ApiClient.make_request *)

\* DEFAULT_TIMEOUT
DEFAULT_TIMEOUT == 60

\* the direct base classes of the exception classes involved; the classes of
\* the requests package are written requests.X, the others are Python's own
Bases(cls) ==
    CASE cls = "requests.RequestException"  -> {"OSError"}
      [] cls = "requests.Timeout"           -> {"requests.RequestException"}
      [] cls = "requests.ReadTimeout"       -> {"requests.Timeout"}
      [] cls = "requests.ConnectionError"   -> {"requests.RequestException"}
      [] cls = "requests.ConnectTimeout"    -> {"requests.ConnectionError", "requests.Timeout"}
      [] cls = "requests.HTTPError"         -> {"requests.RequestException"}
      [] cls = "requests.InvalidJSONError"  -> {"requests.RequestException"}
      [] cls = "requests.JSONDecodeError"   -> {"requests.InvalidJSONError", "json.JSONDecodeError"}
      [] cls = "json.JSONDecodeError"       -> {"ValueError"}
      [] cls = "TimeoutError"               -> {"OSError"}
      [] cls = "ConnectionError"            -> {"OSError"}
      [] cls \in {"OSError", "ValueError", "RuntimeError", "AttributeError"} -> {"Exception"}
      [] OTHER                              -> {}

\* issubclass(cls, base)
RECURSIVE IsSubclass(_, _)
IsSubclass(cls, base) == cls = base \/ \E b \in Bases(cls) : IsSubclass(b, base)

\* an exception object: its class and what its message is made of
Exc(cls, text, status, reason, detail) ==
    [cls |-> cls, text |-> text, status |-> status, reason |-> reason, detail |-> detail]

\* dict.get(key, default)
Get(obj, key, default) == IF key \in DOMAIN obj.o THEN obj.o[key] ELSE default

\* the truth value of a JSON value
Truthy(v) ==
    CASE v.t = "str"  -> v.s # ""
      [] v.t = "obj"  -> DOMAIN v.o # {}
      [] v.t = "list" -> Len(v.o) > 0
      [] OTHER        -> FALSE

\* str(error_data) of a dict
StrOf(v) == [t |-> "repr", s |-> "", o |-> v.o]

\* response.raise_for_status() raises HTTPError
IsErrorStatus(status_code) == 400 <= status_code /\ status_code < 600

\* lines 269-272: the body of a response that passed raise_for_status; the
\* ValueError is raised inside the outer try block
CheckBody(resp) ==
    IF resp.text = ""
    THEN [raised |-> Exc("ValueError", "API returned an empty response.", 0, "", JNull),
          value |-> JNull, returned |-> FALSE]
    ELSE IF resp.valid
    THEN [raised |-> NoException, value |-> resp.json, returned |-> TRUE]
    ELSE \* response.json() raises requests.JSONDecodeError, caught as json.JSONDecodeError
         IF IsSubclass("requests.JSONDecodeError", "json.JSONDecodeError")
         THEN [raised |-> Exc("ValueError", "API returned non-JSON response",
                              resp.status_code, "", JStr(resp.text)),
               value |-> JNull, returned |-> FALSE]
         ELSE [raised |-> Exc("requests.JSONDecodeError", "", 0, "", JNull),
               value |-> JNull, returned |-> FALSE]

\* lines 274-281: the handler of requests.exceptions.HTTPError; an exception
\* raised while it reads the error body leaves make_request as it is
HandleHTTPError(resp) ==
    LET error_msg(detail) ==
            Exc("ConnectionError", "HTTP Error", resp.status_code, resp.reason, detail)
        attribute_error == Exc("AttributeError", "object has no attribute 'get'", 0, "", JNull)
    IN  IF ~resp.valid THEN error_msg(JStr(resp.text))
        ELSE LET error_data == resp.json
             IN  IF error_data.t # "obj" THEN attribute_error
                 ELSE LET error == Get(error_data, "error", JObj(<<>>))
                      IN  IF error.t # "obj" THEN attribute_error
                          ELSE LET message == Get(error, "message", JNull)
                                   detail  == Get(error_data, "detail", JNull)
                               IN  IF Truthy(message) THEN error_msg(message)
                                   ELSE IF Truthy(detail) THEN error_msg(detail)
                                   ELSE error_msg(StrOf(error_data))

\* lines 273-283: the except clauses of make_request, tried in order, for an
\* exception e raised inside the try block
HandleException(e, resp, tmo) ==
    IF IsSubclass(e.cls, "requests.Timeout")
    THEN Exc("TimeoutError", "Request timed out", tmo, "", JNull)
    ELSE IF IsSubclass(e.cls, "requests.HTTPError") THEN HandleHTTPError(resp)
    ELSE IF IsSubclass(e.cls, "requests.RequestException")
    THEN Exc("ConnectionError", "Network or request setup error", 0, "", JNull)
    ELSE IF IsSubclass(e.cls, "Exception")
    THEN Exc("RuntimeError", "An unexpected error occurred during the API request", 0, "", JNull)
    ELSE e

(* Inputs of the request specification: what the server may answer *)

Statuses == {[code |-> 200, reason |-> "OK"],
             [code |-> 401, reason |-> "Unauthorized"],
             [code |-> 404, reason |-> "Not Found"],
             [code |-> 500, reason |-> "Internal Server Error"]}

Bodies ==
    {[text |-> "", valid |-> FALSE, json |-> JNull],
     [text |-> "<html>", valid |-> FALSE, json |-> JNull],
     [text |-> "{\"error\": {\"message\": \"bad key\"}}", valid |-> TRUE,
      json |-> JObj("error" :> JObj("message" :> JStr("bad key")))],
     [text |-> "{\"error\": \"rate limited\"}", valid |-> TRUE,
      json |-> JObj("error" :> JStr("rate limited"))],
     [text |-> "{\"detail\": \"gone\"}", valid |-> TRUE,
      json |-> JObj("detail" :> JStr("gone"))],
     [text |-> "{\"id\": \"r1\"}", valid |-> TRUE,
      json |-> JObj("id" :> JStr("r1"))],
     [text |-> "{\"choices\": [{\"message\": {\"content\": \"hello\"}}]}", valid |-> TRUE,
      json |-> JObj("choices" :> JList(<<JObj("message" :> JObj("content" :> JStr("hello")))>>))],
     [text |-> "{\"content\": [{\"type\": \"text\", \"text\": \"hello\"}]}", valid |-> TRUE,
      json |-> JObj("content" :> JList(<<JObj("type" :> JStr("text") @@ "text" :> JStr("hello"))>>))]}

Responses ==
    {[status_code |-> st.code, reason |-> st.reason, text |-> b.text,
      valid |-> b.valid, json |-> b.json] : st \in Statuses, b \in Bodies}

\* the exceptions session.post raises
PostExceptions == {"requests.ReadTimeout", "requests.ConnectTimeout", "requests.ConnectionError"}

InitRequest ==
    /\ pc = "request_start"
    /\ ExtIdle
    /\ timeout \in {5, DEFAULT_TIMEOUT}
    /\ response = NoResponse
    /\ in_flight = NoException
    /\ result = NoResult
    /\ dirs = {} /\ files = <<>> /\ dirs0 = {} /\ files0 = <<>>
    /\ content = <<>>
    /\ UnpackIdle
    /\ PackIdle
    /\ PayloadIdle
    /\ ParserIdle
    /\ AskIdle

\* line 267: session.post returns a response or raises
SessionPost ==
    /\ pc = "request_start"
    /\ \/ \E r \in Responses :
            /\ response' = r
            /\ pc' = "request_status"
            /\ UNCHANGED in_flight
       \/ \E cls \in PostExceptions :
            /\ in_flight' = Exc(cls, "", 0, "", JNull)
            /\ pc' = "request_except"
            /\ UNCHANGED response
    /\ calls' = Append(calls, Call("session.post", <<>>, JNull))
    /\ UNCHANGED <<fsVars, extVars, unpackVars, packVars, payloadVars, parserVars, timeout, result,
                   models_configured, model_name, model_config, prompt, log_enabled, diag, ai_response, exit_status>>

\* line 268: response.raise_for_status()
RaiseForStatus ==
    /\ pc = "request_status"
    /\ IF IsErrorStatus(response.status_code)
       THEN /\ in_flight' = Exc("requests.HTTPError", "", response.status_code,
                                response.reason, JNull)
            /\ pc' = "request_except"
       ELSE /\ pc' = "request_body"
            /\ UNCHANGED in_flight
    /\ UNCHANGED <<fsVars, extVars, unpackVars, packVars, payloadVars, parserVars, askVars, timeout, response, result>>

\* lines 269-272: the body is checked and parsed
ReadBody ==
    /\ pc = "request_body"
    /\ LET r == CheckBody(response)
       IN  IF r.returned
           THEN /\ result' = r
                /\ pc' = "request_done"
                /\ UNCHANGED in_flight
           ELSE /\ in_flight' = r.raised
                /\ pc' = "request_except"
                /\ UNCHANGED result
    /\ UNCHANGED <<fsVars, extVars, unpackVars, packVars, payloadVars, parserVars, askVars, timeout, response>>

\* lines 273-283: the exception raised in the try block reaches the except
\* clauses and make_request raises
RaiseFromHandler ==
    /\ pc = "request_except"
    /\ result' = [raised |-> HandleException(in_flight, response, timeout),
                  value |-> JNull, returned |-> FALSE]
    /\ pc' = "request_done"
    /\ UNCHANGED <<fsVars, extVars, unpackVars, packVars, payloadVars, parserVars, askVars, timeout, response, in_flight>>

NextRequest == SessionPost \/ RaiseForStatus \/ ReadBody \/ RaiseFromHandler

SpecRequest == InitRequest /\ [][NextRequest]_vars

----------------------------------------------------------------------------
(* clippy.py: the response parsers *)

\* raise ValueError(f"API Error: {msg}")
ApiError(msg) == [raised |-> "ValueError", kind |-> "api", msg |-> msg, value |-> JNull]

\* an IndexError, KeyError, AttributeError or TypeError inside the parser's try
\* block, re-raised as ValueError("Could not parse ... response structure")
ParseError == [raised |-> "ValueError", kind |-> "parse", msg |-> JNull, value |-> JNull]

\* return value
Returned(v) == [raised |-> "", kind |-> "", msg |-> JNull, value |-> v]

\* x[0] raises when x is an empty list or string, a dict (no key 0) or None
HasFirst(x) ==
    \/ x.t = "list" /\ Len(x.o) > 0
    \/ x.t = "str" /\ x.s # ""

\* x[0]; the first character of a string is a string
First(x) == IF x.t = "list" THEN x.o[1] ELSE JStr("c")

\* _openai_parser without the elif of line 171: an 'error' that is not a dict
\* is ignored
_openai_parser_dict_errors_only(resp) ==
    IF resp.t # "obj" THEN ParseError
    ELSE IF "error" \in DOMAIN resp.o /\ resp.o["error"].t = "obj"
    THEN ApiError(Get(resp.o["error"], "message", JStr("Unknown OpenAI API Error")))
    ELSE LET choices == Get(resp, "choices", JList(<<JObj(<<>>)>>))
         IN  IF ~HasFirst(choices) \/ First(choices).t # "obj" THEN ParseError
             ELSE Returned(Get(First(choices), "text", JNull))

\* _openai_parser
_openai_parser(resp) ==
    IF resp.t # "obj" THEN ParseError
    ELSE IF "error" \in DOMAIN resp.o
    THEN IF resp.o["error"].t = "obj"
         THEN ApiError(Get(resp.o["error"], "message", JStr("Unknown OpenAI API Error")))
         ELSE ApiError(resp.o["error"])
    ELSE LET choices == Get(resp, "choices", JList(<<JObj(<<>>)>>))
         IN  IF ~HasFirst(choices) THEN ParseError
             ELSE LET choice == First(choices)
                  IN  IF choice.t # "obj" THEN ParseError
                      ELSE LET message == Get(choice, "message", JObj(<<>>))
                           IN  IF message.t # "obj" THEN ParseError
                               ELSE LET message_content == Get(message, "content", JNull)
                                    IN  IF message_content.t = "null"
                                        THEN Returned(Get(choice, "text", JNull))
                                        ELSE Returned(message_content)

\* "".join(block.get("text", "") for block in content_blocks
\*         if block.get("type") == "text"): the joined string, or a failure
\* when a block has no get or a text that is not a string
RECURSIVE JoinTextBlocks(_)
JoinTextBlocks(blocks) ==
    IF blocks = <<>> THEN [ok |-> TRUE, s |-> ""]
    ELSE LET block == Head(blocks)
         IN  IF block.t # "obj" THEN [ok |-> FALSE, s |-> ""]
             ELSE LET type == Get(block, "type", JNull)
                      text == Get(block, "text", JStr(""))
                      rest == JoinTextBlocks(Tail(blocks))
                  IN  IF type.t = "str" /\ type.s = "text"
                      THEN IF text.t # "str" \/ ~rest.ok THEN [ok |-> FALSE, s |-> ""]
                           ELSE [ok |-> TRUE, s |-> text.s \o rest.s]
                      ELSE rest

\* _anthropic_parser
_anthropic_parser(resp) ==
    IF resp.t # "obj" THEN ParseError
    ELSE LET type == Get(resp, "type", JNull)
         IN  IF type.t = "str" /\ type.s = "error"
             THEN LET error == Get(resp, "error", JObj(<<>>))
                  IN  IF error.t # "obj" THEN ParseError
                      ELSE ApiError(Get(error, "message", JStr("Unknown Anthropic Error")))
             ELSE LET content_blocks == Get(resp, "content", JList(<<>>))
                  IN  IF ~Truthy(content_blocks) THEN Returned(JNull)
                      ELSE IF content_blocks.t # "list" THEN ParseError
                      ELSE LET full_text == JoinTextBlocks(content_blocks.o)
                           IN  IF ~full_text.ok THEN ParseError
                               ELSE IF full_text.s = "" THEN Returned(JNull)
                               ELSE Returned(JStr(full_text.s))

\* PROVIDER_TYPES[provider_key].response_parser
ResponseParser(provider_key, resp) ==
    IF provider_key = "anthropic" THEN _anthropic_parser(resp) ELSE _openai_parser(resp)

(* Inputs of the parser specification: the decoded responses *)

\* a field a response may lack
Absent == [t |-> "absent", s |-> "", o |-> <<>>]

\* a dict of the fields that are present
Dict(pairs) ==
    LET present == {p \in pairs : p[2].t # "absent"}
    IN  JObj([k \in {p[1] : p \in present} |-> (CHOOSE p \in present : p[1] = k)[2]])

ErrorValues ==
    {Absent, JNull, JStr("rate limited"), JObj(<<>>),
     JObj("message" :> JStr("bad key"))}

Choices ==
    {JObj(<<>>),
     Dict({<<"message", JObj("content" :> JStr("hi"))>>}),
     Dict({<<"text", JStr("old")>>}),
     Dict({<<"message", JObj("content" :> JStr("hi"))>>, <<"text", JStr("old")>>}),
     Dict({<<"message", JObj("content" :> JNull)>>, <<"text", JStr("old")>>}),
     Dict({<<"message", JObj("role" :> JStr("assistant"))>>}),
     Dict({<<"message", JStr("hi")>>})}

ChoicesValues ==
    {Absent, JNull, JList(<<>>)}
        \cup {JList(<<c>>) : c \in Choices}
        \cup {JList(<<Dict({<<"text", JStr("old")>>}), Dict({<<"text", JStr("new")>>})>>)}

OpenAIResponses ==
    {Dict({<<"error", e>>, <<"choices", c>>}) : e \in ErrorValues, c \in ChoicesValues}

TextBlock(str) == JObj("type" :> JStr("text") @@ "text" :> JStr(str))
ToolBlock == JObj("type" :> JStr("tool_use") @@ "text" :> JStr("no"))

ContentValues ==
    {Absent, JList(<<>>), JList(<<TextBlock("a")>>), JList(<<ToolBlock>>),
     JList(<<TextBlock("a"), ToolBlock, TextBlock("b")>>),
     JList(<<TextBlock("b"), TextBlock("a")>>),
     JList(<<JObj("type" :> JStr("text"))>>),
     JList(<<TextBlock("")>>)}

TypeValues == {Absent, JStr("message"), JStr("error")}

AnthropicResponses ==
    {Dict({<<"type", ty>>, <<"error", e>>, <<"content", c>>}) :
        ty \in TypeValues, e \in ErrorValues \ {JNull}, c \in ContentValues}

ParserResponses == OpenAIResponses \cup AnthropicResponses \cup {JList(<<>>)}

InitParser ==
    /\ pc = "parser_start"
    /\ ExtIdle
    /\ provider_type \in ProviderKeys
    /\ response_data \in ParserResponses
    /\ parsed = NoParse
    /\ model = "" /\ messages = <<>> /\ max_tokens = [isNone |-> TRUE, val |-> 0]
    /\ temperature = ""
    /\ built = [raised |-> "", value |-> <<>>, warned |-> FALSE]
    /\ dirs = {} /\ files = <<>> /\ dirs0 = {} /\ files0 = <<>>
    /\ content = <<>>
    /\ UnpackIdle
    /\ PackIdle
    /\ RequestIdle
    /\ AskIdle

\* ask_ai line 384: provider.response_parser(response_data)
CallResponseParser ==
    /\ pc = "parser_start"
    /\ parsed' = ResponseParser(provider_type, response_data)
    /\ pc' = IF parsed'.raised = "" THEN "parser_returned" ELSE "parser_raised"
    /\ UNCHANGED <<fsVars, extVars, unpackVars, packVars, payloadVars, requestVars, askVars, response_data>>

NextParser == CallResponseParser

SpecParser == InitParser /\ [][NextParser]_vars

----------------------------------------------------------------------------
(* clippy.py: get_provider_type_for_model *)

\* MODEL_PREFIX_TO_PROVIDER, in the order of the dict
MODEL_PREFIX_TO_PROVIDER ==
    <<[prefix |-> <<"g", "p", "t", "-">>, provider_key |-> "openai"],
      [prefix |-> <<"g", "e", "m", "i", "n", "i", "-">>, provider_key |-> "google"],
      [prefix |-> <<"c", "l", "a", "u", "d", "e", "-">>, provider_key |-> "anthropic"]>>

\* DEFAULT_PROVIDER
DEFAULT_PROVIDER == "openai"

\* a line printed by error_print or warn_print
ErrorLine(text) == [tag |-> "Error:", text |-> text]
WarnLine(text) == [tag |-> "Warning:", text |-> text]

\* get_provider_type_for_model with 'prefix in model_name' for startswith
get_provider_type_for_model_anywhere(name) ==
    LET hits == {i \in 1..Len(MODEL_PREFIX_TO_PROVIDER) :
                    \E k \in 1..Len(name) :
                        StartsWithAt(name, k, MODEL_PREFIX_TO_PROVIDER[i].prefix)}
    IN  IF hits = {} THEN [value |-> DEFAULT_PROVIDER, warned |-> TRUE]
        ELSE [value |-> MODEL_PREFIX_TO_PROVIDER[CHOOSE i \in hits : \A j \in hits : i <= j].provider_key,
              warned |-> FALSE]

\* get_provider_type_for_model: the first prefix the name starts with, or the
\* default with a warning
get_provider_type_for_model(name) ==
    LET hits == {i \in 1..Len(MODEL_PREFIX_TO_PROVIDER) :
                    StartsWithAt(name, 1, MODEL_PREFIX_TO_PROVIDER[i].prefix)}
    IN  IF hits = {} THEN [value |-> DEFAULT_PROVIDER, warned |-> TRUE]
        ELSE [value |-> MODEL_PREFIX_TO_PROVIDER[CHOOSE i \in hits : \A j \in hits : i <= j].provider_key,
              warned |-> FALSE]

(* Inputs of the resolve specification: the model names *)

NameChunks ==
    {<<"g", "p", "t", "-">>, <<"g", "e", "m", "i", "n", "i", "-">>,
     <<"c", "l", "a", "u", "d", "e", "-">>, <<"g">>, <<"p", "t", "-">>,
     <<"G", "P", "T", "-">>, <<"c", "l", "a", "u", "d", "e">>, <<"-">>, <<"4">>}

ModelNames ==
    {Concat(cs) : cs \in UNION {[1..n -> NameChunks] : n \in 0..MaxNameChunks}}

InitResolve ==
    /\ pc = "resolve_start"
    /\ ExtIdle
    /\ model_name \in ModelNames
    /\ models_configured = FALSE
    /\ model_config = NoModelConfig
    /\ prompt = "" /\ log_enabled = FALSE
    /\ calls = <<>> /\ diag = <<>>
    /\ ai_response = JNull /\ exit_status = -1
    /\ dirs = {} /\ files = <<>> /\ dirs0 = {} /\ files0 = <<>>
    /\ content = <<>>
    /\ UnpackIdle
    /\ PackIdle
    /\ PayloadIdle
    /\ RequestIdle
    /\ ParserIdle

\* lines 225-229: the call of get_provider_type_for_model
ResolveProvider ==
    /\ pc = "resolve_start"
    /\ LET r == get_provider_type_for_model(model_name)
       IN  /\ provider_type' = r.value
           /\ diag' = IF r.warned THEN Append(diag, WarnLine("Unknown model prefix")) ELSE diag
    /\ calls' = Append(calls, Call("get_provider_type_for_model", <<model_name>>, JNull))
    /\ pc' = "resolve_done"
    /\ UNCHANGED <<fsVars, extVars, unpackVars, packVars, requestVars, parserVars,
                   model, messages, max_tokens, temperature, built,
                   models_configured, model_name, model_config, prompt, log_enabled, ai_response, exit_status>>

NextResolve == ResolveProvider

SpecResolve == InitResolve /\ [][NextResolve]_vars

----------------------------------------------------------------------------
(* clippy.py: the ask command: main, ask_cmd, ask_ai, ask_gemini *)

\* get_default_system_prompt()
SYSTEM_PROMPT == "You are a helpful command-line assistant called Clippy."

\* the traceback the interpreter prints for an exception nothing caught
TracebackLine(cls) == [tag |-> "Traceback", text |-> cls]

\* ask_ai lines 366-372: an unknown key, the dedicated client, or the generic path
\* (here without the test of line 371)
Dispatch_no_special_case(provider_key) ==
    IF provider_key \notin ProviderKeys THEN "unknown" ELSE "generic"

\* ask_ai lines 366-372: an unknown key, the dedicated client, or the generic path
Dispatch(provider_key) ==
    IF provider_key \notin ProviderKeys THEN "unknown"
    ELSE IF provider_key = "google" THEN "ask_gemini"
    ELSE "generic"

\* ask_ai lines 387-392: both except clauses print an error and return None
AskAiErrorLine(cls) ==
    IF \E c \in {"ValueError", "ConnectionError", "TimeoutError", "RuntimeError"} :
            IsSubclass(cls, c)
    THEN ErrorLine("API interaction failed")
    ELSE ErrorLine("An unexpected error occurred during AI request")

(* Inputs of the ask specification *)

AskModelNames ==
    {<<>>, <<"g", "p", "t", "-", "4">>, <<"c", "l", "a", "u", "d", "e", "-", "3">>,
     <<"g", "e", "m", "i", "n", "i", "-", "1">>, <<"x">>}

ModelConfigs ==
    {NoModelConfig}
        \cup {[found |-> TRUE, api_key |-> k, provider_type |-> pt] :
                k \in {"", "key"}, pt \in {"", "openai", "google", "anthropic", "bogus"}}

\* what the dedicated Google client may do
GeminiOutcomes == {"import_error", "raises", "text", "no_text"}

InitAsk ==
    /\ pc = "ask_cmd"
    /\ ExtIdle
    /\ models_configured \in BOOLEAN
    /\ model_name \in AskModelNames
    /\ model_config \in ModelConfigs
    /\ ~models_configured => model_config = NoModelConfig
    /\ prompt \in {"", "hi"}
    /\ log_enabled \in BOOLEAN
    /\ calls = <<>> /\ diag = <<>>
    /\ ai_response = JNull /\ exit_status = -1
    /\ dirs = {} /\ files = <<>> /\ dirs0 = {} /\ files0 = <<>>
    /\ content = <<>>
    /\ UnpackIdle
    /\ PackIdle
    /\ PayloadIdle
    /\ RequestIdle
    /\ ParserIdle

\* main lines 791-800 and ask_cmd lines 444-476: the configuration checks; a
\* failed check prints an error, ask_cmd returns False and main exits with 1
\* (the listing of line 452 prints the configured models to stdout)
AskCmd ==
    /\ pc = "ask_cmd"
    /\ LET main_diag == IF ~models_configured
                        THEN <<ErrorLine("No models with API KEY configured")>> ELSE <<>>
           failure == IF ~models_configured THEN "No models configured"
                      ELSE IF model_name = <<>> THEN "No model specified and no default model set"
                      ELSE IF ~model_config.found THEN "Model not found"
                      ELSE IF model_config.api_key = "" THEN "API key is missing"
                      ELSE ""
           resolved == get_provider_type_for_model(model_name)
       IN  IF failure # ""
           THEN /\ diag' = diag \o main_diag \o <<ErrorLine(failure)>>
                /\ exit_status' = 1
                /\ pc' = "exited"
                /\ UNCHANGED <<provider_type, calls>>
           ELSE IF model_config.provider_type = ""
           THEN /\ provider_type' = resolved.value
                /\ diag' = diag \o <<WarnLine("Provider type missing")>>
                              \o (IF resolved.warned THEN <<WarnLine("Unknown model prefix")>>
                                  ELSE <<>>)
                /\ calls' = Append(calls, Call("get_provider_type_for_model", <<model_name>>, JNull))
                /\ pc' = "ask_ai"
                /\ UNCHANGED exit_status
           ELSE /\ provider_type' = model_config.provider_type
                /\ pc' = "ask_ai"
                /\ UNCHANGED <<diag, calls, exit_status>>
    /\ UNCHANGED <<fsVars, extVars, unpackVars, packVars, requestVars, parserVars,
                   model, messages, max_tokens, temperature, built,
                   models_configured, model_name, model_config, prompt, log_enabled, ai_response>>

\* ask_ai lines 361-382: the provider lookup, the dispatch and, on the generic
\* path, the messages, the headers and the payload
AskAi ==
    /\ pc = "ask_ai"
    /\ LET route == Dispatch(provider_type)
           msgs == <<[role |-> "system", content |-> SYSTEM_PROMPT],
                     [role |-> "user", content |-> prompt]>>
           payload == PayloadFactory(provider_type, model_name, msgs, None, "0.7")
       IN  CASE route = "unknown" ->
                  /\ diag' = Append(diag, ErrorLine("Provider type is not configured"))
                  /\ ai_response' = JNull
                  /\ pc' = "ask_cmd_tail"
                  /\ UNCHANGED <<calls, model, messages, max_tokens, temperature, built, timeout>>
             [] route = "ask_gemini" ->
                  /\ calls' = Append(calls, Call("ask_gemini", <<prompt, model_name, SYSTEM_PROMPT>>, JNull))
                  /\ pc' = "ask_gemini"
                  /\ UNCHANGED <<diag, ai_response, model, messages, max_tokens, temperature,
                                 built, timeout>>
             [] route = "generic" ->
                  /\ model' = model_name /\ messages' = msgs
                  /\ max_tokens' = None /\ temperature' = "0.7"
                  /\ built' = payload
                  /\ calls' = calls \o <<Call("header_factory", <<>>, JNull),
                                         Call("payload_factory", <<model_name, msgs>>, JNull)>>
                  /\ IF payload.raised # ""
                     THEN /\ diag' = Append(diag, AskAiErrorLine(payload.raised))
                          /\ ai_response' = JNull
                          /\ pc' = "ask_cmd_tail"
                          /\ UNCHANGED timeout
                     ELSE /\ diag' = IF payload.warned
                                     THEN Append(diag, WarnLine("Only system prompt provided"))
                                     ELSE diag
                          /\ timeout' = DEFAULT_TIMEOUT
                          /\ pc' = "request_start"
                          /\ UNCHANGED ai_response
    /\ UNCHANGED <<fsVars, extVars, unpackVars, packVars, parserVars, provider_type,
                   response, in_flight, result,
                   models_configured, model_name, model_config, prompt, log_enabled, exit_status>>

\* ask_gemini lines 343-359, called at ask_ai line 372 outside any try: what the
\* client raises is caught nowhere and ends the process with a traceback
AskGemini ==
    /\ pc = "ask_gemini"
    /\ \E outcome \in GeminiOutcomes :
          CASE outcome = "import_error" ->
                  /\ diag' = Append(diag, ErrorLine("Google genai client not found"))
                  /\ ai_response' = JNull
                  /\ pc' = "ask_cmd_tail"
                  /\ UNCHANGED <<calls, exit_status>>
            [] outcome = "raises" ->
                  /\ calls' = Append(calls, Call("generate_content",
                                                 <<model_name, prompt, SYSTEM_PROMPT>>,
                                                 [t |-> "raised", s |-> "", o |-> <<>>]))
                  /\ diag' = Append(diag, TracebackLine("genai error"))
                  /\ exit_status' = 1
                  /\ pc' = "exited"
                  /\ UNCHANGED ai_response
            [] outcome = "text" ->
                  /\ calls' = Append(calls, Call("generate_content",
                                                 <<model_name, prompt, SYSTEM_PROMPT>>,
                                                 JStr("hello")))
                  /\ ai_response' = JStr("hello")
                  /\ pc' = "ask_cmd_tail"
                  /\ UNCHANGED <<diag, exit_status>>
            [] outcome = "no_text" ->
                  /\ calls' = Append(calls, Call("generate_content",
                                                 <<model_name, prompt, SYSTEM_PROMPT>>, JNull))
                  /\ ai_response' = JNull
                  /\ pc' = "ask_cmd_tail"
                  /\ UNCHANGED <<diag, exit_status>>
    /\ UNCHANGED <<fsVars, extVars, unpackVars, packVars, payloadVars, requestVars, parserVars,
                   models_configured, model_name, model_config, prompt, log_enabled>>

\* ask_ai lines 383-392 with one more POST after a failed request, once
AskAiAfterRequest_retry ==
    /\ pc = "request_done"
    /\ IF result.raised.cls # "" /\ Len(calls) < 4
       THEN /\ pc' = "request_start"
            /\ response' = NoResponse /\ in_flight' = NoException /\ result' = NoResult
            /\ UNCHANGED <<response_data, parsed, diag, ai_response, calls>>
       ELSE /\ diag' = Append(diag, AskAiErrorLine(result.raised.cls))
            /\ ai_response' = JNull
            /\ pc' = "ask_cmd_tail"
            /\ UNCHANGED <<response_data, parsed, calls, response, in_flight, result>>
    /\ UNCHANGED <<fsVars, extVars, unpackVars, packVars, payloadVars, timeout,
                   models_configured, model_name, model_config, prompt, log_enabled, exit_status>>

\* ask_ai lines 383-392: make_request has returned or raised; what it raised
\* is reported, what it returned goes through the provider's parser, and what
\* the parser raises is reported too
AskAiAfterRequest ==
    /\ pc = "request_done"
    /\ IF result.raised.cls # ""
       THEN /\ diag' = Append(diag, AskAiErrorLine(result.raised.cls))
            /\ ai_response' = JNull
            /\ UNCHANGED <<response_data, parsed, calls>>
       ELSE LET p == ResponseParser(provider_type, result.value)
            IN  /\ response_data' = result.value
                /\ parsed' = p
                /\ calls' = Append(calls, Call("response_parser", <<>>, p.value))
                /\ IF p.raised # ""
                   THEN /\ diag' = Append(diag, AskAiErrorLine(p.raised))
                        /\ ai_response' = JNull
                   ELSE /\ ai_response' = p.value
                        /\ UNCHANGED diag
    /\ pc' = "ask_cmd_tail"
    /\ UNCHANGED <<fsVars, extVars, unpackVars, packVars, payloadVars, requestVars,
                   models_configured, model_name, model_config, prompt, log_enabled, exit_status>>

\* ask_cmd lines 480-493 and main line 817: the log entry is saved when logging
\* is enabled (a failure to save prints an error), a response is printed, and
\* the process exits with 0 for a response and 1 for None; a response that is
\* not a string has no strip and ends the process with a traceback
AskCmdTail ==
    /\ pc = "ask_cmd_tail"
    /\ \E saved \in BOOLEAN :
          /\ ~log_enabled => saved
          /\ LET log_calls == IF log_enabled
                              THEN <<Call("save_log_entry", <<prompt, model_name>>, ai_response)>>
                              ELSE <<>>
                 log_diag  == IF saved THEN <<>> ELSE <<ErrorLine("Failed to save log entry")>>
             IN  IF ai_response.t = "null"
                 THEN /\ calls' = calls \o log_calls
                      /\ diag' = diag \o log_diag
                      /\ exit_status' = 1
                 ELSE IF ai_response.t = "str"
                 THEN /\ calls' = calls \o log_calls \o <<Call("print", <<ai_response>>, JNull)>>
                      /\ diag' = diag \o log_diag
                      /\ exit_status' = 0
                 ELSE /\ calls' = calls \o log_calls
                      /\ diag' = diag \o log_diag \o <<TracebackLine("AttributeError")>>
                      /\ exit_status' = 1
    /\ pc' = "exited"
    /\ UNCHANGED <<fsVars, extVars, unpackVars, packVars, payloadVars, requestVars, parserVars,
                   models_configured, model_name, model_config, prompt, log_enabled, ai_response>>

NextAsk ==
    \/ AskCmd
    \/ AskAi
    \/ AskGemini
    \/ SessionPost
    \/ RaiseForStatus
    \/ ReadBody
    \/ RaiseFromHandler
    \/ AskAiAfterRequest
    \/ AskCmdTail

SpecAsk == InitAsk /\ [][NextAsk]_vars

\* nothing in the command waits: every step that can be taken is taken
SpecAskFair == SpecAsk /\ WF_vars(NextAsk)

----------------------------------------------------------------------------
(* clippy.py: the interaction log and the log commands *)

\* the smaller and the larger of two numbers
Min(a, b) == IF a <= b THEN a ELSE b

\* a set of numbers as the sequence in increasing order
RECURSIVE SortAsc(_)
SortAsc(S) ==
    IF S = {} THEN <<>>
    ELSE LET least == CHOOSE x \in S : \A y \in S : x <= y
         IN  <<least>> \o SortAsc(S \ {least})

\* the elements of a sequence
Range(seq) == {seq[k] : k \in 1..Len(seq)}

\* save_log_entry lines 308-319 when no OSError is raised: the file
\* <timestamp>.log is opened with 'w' and holds log_data afterwards
save_log_entry(lf, timestamp, user_prompt, ai_text) ==
    LET log_data == [timestamp |-> timestamp, prompt |-> user_prompt, response |-> ai_text]
    IN  [t \in DOMAIN lf \cup {timestamp} |-> IF t = timestamp THEN log_data ELSE lf[t]]

\* _get_sorted_log_files without the sort of line 332, for a listing that
\* gives the newest file first
RECURSIVE _get_sorted_log_files_unsorted(_)
_get_sorted_log_files_unsorted(lf) ==
    IF DOMAIN lf = {} THEN <<>>
    ELSE LET newest == CHOOSE x \in DOMAIN lf : \A y \in DOMAIN lf : x >= y
         IN  <<newest>> \o _get_sorted_log_files_unsorted([t \in DOMAIN lf \ {newest} |-> lf[t]])

\* deleted_count (line 700), as the value a call is recorded with
JInt(n) == [t |-> "int", s |-> "", o |-> <<n>>]

\* _get_sorted_log_files: the log files, oldest first by the timestamp of the
\* name (every name save_log_entry gives is numeric)
_get_sorted_log_files(lf) == SortAsc(DOMAIN lf)

\* log_clear_cmd lines 657-686: the files chosen for deletion, or the value
\* returned before any deletion
log_clear_cmd(count, sorted_log_files) ==
    LET total_logs == Len(sorted_log_files)
        early(value, line) == [returned |-> TRUE, value |-> value, print |-> line,
                               files_to_delete |-> <<>>]
        delete(num_to_delete) == [returned |-> FALSE, value |-> TRUE, print |-> "Preparing to delete",
                                  files_to_delete |-> SubSeq(sorted_log_files, 1, num_to_delete)]
    IN  IF total_logs = 0 THEN early(TRUE, "No log history found to clear.")
        ELSE IF count > 0 THEN delete(Min(count, total_logs))
        ELSE IF count < 0 THEN
            IF 0 - count >= total_logs THEN early(TRUE, "Keeping all log(s). Nothing to clear.")
            ELSE delete(total_logs - (0 - count))
        ELSE early(FALSE, "Clear count cannot be zero.")

\* the prompts and the answers of the asks of the log specification
LogPrompts == {"p", "q"}
LogResponses == {JStr("r"), JNull}

\* the counts given to 'log clear'
ClearCounts == (0 - MaxClock - 1)..(MaxClock + 1)

InitLog ==
    /\ pc = "shell"
    /\ dirs = {} /\ files = <<>> /\ dirs0 = {} /\ files0 = <<>>
    /\ content = <<>>
    /\ UnpackIdle
    /\ PackIdle
    /\ PayloadIdle
    /\ RequestIdle
    /\ ParserIdle
    /\ models_configured = TRUE
    /\ model_name = <<>>
    /\ model_config = NoModelConfig
    /\ prompt = ""
    /\ log_enabled = TRUE
    /\ calls = <<>>
    /\ diag = <<>>
    /\ ai_response = JNull
    /\ exit_status = -1
    /\ log_files = <<>>
    /\ clock = 1
    /\ config = NoConfig
    /\ venv = NoVenv

\* a second passes between two commands
Tick ==
    /\ clock < MaxClock
    /\ clock' = clock + 1
    /\ UNCHANGED <<pc, fsVars, unpackVars, packVars, payloadVars, requestVars, parserVars,
                   askVars, log_files, config, venv>>

\* one run of 'clippy ask' (ask_cmd lines 444-493, main line 817): the command
\* returns early (lines 445-461) or asks; after ask_ai the entry is saved when
\* logging is enabled, under the name of the current second; saved is false
\* when save_log_entry meets an OSError before the file is opened
AskLogged ==
    /\ pc = "shell"
    /\ \E reached \in BOOLEAN, p \in LogPrompts, r \in LogResponses, saved \in BOOLEAN :
          /\ prompt' = p
          /\ IF ~reached
             THEN /\ calls' = <<Call("ask_cmd", <<p>>, JNull)>>
                  /\ diag' = <<ErrorLine("ask_cmd")>>
                  /\ ai_response' = JNull
                  /\ exit_status' = 1
                  /\ UNCHANGED log_files
             ELSE /\ ai_response' = r
                  /\ exit_status' = IF r = JNull THEN 1 ELSE 0
                  /\ IF ~log_enabled
                     THEN /\ calls' = <<Call("ask_ai", <<p>>, r)>>
                          /\ diag' = <<>>
                          /\ UNCHANGED log_files
                     ELSE /\ calls' = <<Call("ask_ai", <<p>>, r),
                                        Call("save_log_entry", <<p>>, IF saved THEN JStr("saved") ELSE JNull)>>
                          /\ diag' = IF saved THEN <<>> ELSE <<ErrorLine("Failed to save log entry")>>
                          /\ log_files' = IF saved THEN save_log_entry(log_files, clock, p, r)
                                          ELSE log_files
    /\ UNCHANGED <<pc, fsVars, unpackVars, packVars, payloadVars, requestVars, parserVars,
                   models_configured, model_name, model_config, log_enabled, clock, config, venv>>

\* one run of 'clippy log clear count' (log_clear_cmd, main line 817): the
\* chosen files are removed one by one; failed holds the file os.remove raises
\* OSError for, if any (at most one deletion fails)
LogClearCmd ==
    /\ pc = "shell"
    /\ \E count \in ClearCounts :
          LET plan == log_clear_cmd(count, _get_sorted_log_files(log_files))
          IN  IF plan.returned
              THEN /\ calls' = <<Call("log_clear_cmd", <<count>>, JNull)>>
                   /\ diag' = IF plan.value THEN <<>> ELSE <<ErrorLine(plan.print)>>
                   /\ exit_status' = IF plan.value THEN 0 ELSE 1
                   /\ UNCHANGED log_files
              ELSE \E failed \in {{}} \cup {{f} : f \in Range(plan.files_to_delete)} :
                   /\ calls' = <<Call("log_clear_cmd", <<count>>,
                                      JInt(Len(plan.files_to_delete) - Cardinality(failed)))>>
                   /\ diag' = [k \in 1..Cardinality(failed) |-> ErrorLine("Failed to delete log file")]
                   /\ exit_status' = IF failed = {} THEN 0 ELSE 1
                   /\ log_files' = [t \in DOMAIN log_files \ (Range(plan.files_to_delete) \ failed)
                                       |-> log_files[t]]
    /\ UNCHANGED <<pc, fsVars, unpackVars, packVars, payloadVars, requestVars, parserVars,
                   models_configured, model_name, model_config, prompt, log_enabled, ai_response,
                   clock, config, venv>>

\* 'clippy log on' and 'clippy log off' (lines 586-606): the setting is stored
\* unless save_config fails
LogOnOffCmd ==
    /\ pc = "shell"
    /\ \E on \in BOOLEAN, saved \in BOOLEAN :
          /\ log_enabled' = IF saved THEN on ELSE log_enabled
          /\ calls' = <<Call(IF on THEN "log_on_cmd" ELSE "log_off_cmd", <<>>, JNull)>>
          /\ diag' = IF saved THEN <<>> ELSE <<ErrorLine("Could not save config file")>>
          /\ exit_status' = IF saved THEN 0 ELSE 1
    /\ UNCHANGED <<pc, fsVars, extVars, unpackVars, packVars, payloadVars, requestVars, parserVars,
                   models_configured, model_name, model_config, prompt, ai_response>>

NextLog == Tick \/ AskLogged \/ LogClearCmd \/ LogOnOffCmd

SpecLog == InitLog /\ [][NextLog]_vars

----------------------------------------------------------------------------
(* clippy.py: the stored configuration and the model commands *)

\* what a command function hands back: the configuration it leaves in memory,
\* the lines it printed to stderr, whether it ends in save_config, and the
\* value it returns when it does not
CmdResult(cfg, lines, save, value) ==
    [config |-> cfg, lines |-> lines, save |-> save, value |-> value]

\* remove_model_cmd without the reset of the default pointer (lines 534-537)
remove_model_cmd_keep_default(arg, cfg) ==
    LET model_arg == Strip(arg)
    IN  IF DOMAIN cfg.models = {} THEN
            CmdResult(cfg, <<ErrorLine("No models configured yet.")>>, FALSE, TRUE)
        ELSE IF model_arg \notin DOMAIN cfg.models THEN
            CmdResult(cfg, <<ErrorLine("Model not found.")>>, FALSE, FALSE)
        ELSE
            CmdResult([cfg EXCEPT !.models = [n \in DOMAIN cfg.models \ {model_arg} |-> cfg.models[n]]],
                      <<>>, TRUE, TRUE)

\* set_model_cmd (lines 419-435)
set_model_cmd(model_api, default, cfg) ==
    LET colons == {k \in 1..Len(model_api) : model_api[k] = ":"}
        first  == CHOOSE k \in colons : \A j \in colons : k <= j
        model_arg == Strip(SubSeq(model_api, 1, first - 1))
        api_key   == Strip(SubSeq(model_api, first + 1, Len(model_api)))
        resolved  == get_provider_type_for_model(model_arg)
        models    == [n \in DOMAIN cfg.models \cup {model_arg} |->
                         IF n = model_arg
                         THEN [api_key |-> api_key, provider_type |-> resolved.value]
                         ELSE cfg.models[n]]
    IN  IF colons = {} THEN
            CmdResult(cfg, <<ErrorLine("Invalid format. Use <model_name>:<api_key>")>>, FALSE, FALSE)
        ELSE IF model_arg = <<>> \/ api_key = <<>> THEN
            CmdResult(cfg, <<ErrorLine("Both model name and API key are required.")>>, FALSE, FALSE)
        ELSE
            CmdResult([models |-> models,
                       default_model |-> IF default \/ Cardinality(DOMAIN models) = 1
                                         THEN SomeName(model_arg) ELSE cfg.default_model],
                      IF resolved.warned THEN <<WarnLine("Unknown model prefix")>> ELSE <<>>,
                      TRUE, TRUE)

\* set_default_cmd (lines 510-522)
set_default_cmd(arg, cfg) ==
    LET model_arg == Strip(arg)
    IN  IF DOMAIN cfg.models = {} THEN
            CmdResult(cfg, <<ErrorLine("No models configured yet.")>>, FALSE, FALSE)
        ELSE IF model_arg \notin DOMAIN cfg.models THEN
            CmdResult(cfg, <<ErrorLine("Model not found.")>>, FALSE, FALSE)
        ELSE
            CmdResult([cfg EXCEPT !.default_model = SomeName(model_arg)], <<>>, TRUE, TRUE)

\* remove_model_cmd (lines 524-542)
remove_model_cmd(arg, cfg) ==
    LET model_arg == Strip(arg)
    IN  IF DOMAIN cfg.models = {} THEN
            CmdResult(cfg, <<ErrorLine("No models configured yet.")>>, FALSE, TRUE)
        ELSE IF model_arg \notin DOMAIN cfg.models THEN
            CmdResult(cfg, <<ErrorLine("Model not found.")>>, FALSE, FALSE)
        ELSE
            CmdResult([models |-> [n \in DOMAIN cfg.models \ {model_arg} |-> cfg.models[n]],
                       default_model |-> IF cfg.default_model = SomeName(model_arg)
                                         THEN NoName ELSE cfg.default_model],
                      IF cfg.default_model = SomeName(model_arg)
                      THEN <<WarnLine("Removed model was the default.")>> ELSE <<>>,
                      TRUE, TRUE)

\* the arguments of set_model: name:key for a and b, with blanks, with a known
\* prefix, with a second colon, and the malformed ones
ModelApiArgs ==
    {<<"a", ":", "k">>, <<"b", ":", "k">>, <<" ", "a", " ", ":", "j">>,
     <<"g", "p", "t", "-", "4", ":", "k">>, <<"a", ":", "k", ":", "k">>,
     <<"a">>, <<":", "k">>, <<"a", ":">>, <<" ", ":", " ">>}

\* the arguments of set_default and remove_model
ModelArgs == {<<"a">>, <<" ", "a">>, <<"b">>, <<"c">>}

\* an entry of config['models']
ModelEntry(key) == [api_key |-> key, provider_type |-> DEFAULT_PROVIDER]

\* the stored configurations the commands start from: no file, one model that
\* is the default, two models with and without a default
InitialConfigs ==
    {NoConfig,
     [models |-> (<<"a">> :> ModelEntry(<<"k">>)), default_model |-> SomeName(<<"a">>)],
     [models |-> (<<"a">> :> ModelEntry(<<"k">>)) @@ (<<"b">> :> ModelEntry(<<"k">>)),
      default_model |-> SomeName(<<"b">>)],
     [models |-> (<<"a">> :> ModelEntry(<<"k">>)) @@ (<<"b">> :> ModelEntry(<<"k">>)),
      default_model |-> NoName]}

InitConfig ==
    /\ pc = "shell"
    /\ dirs = {} /\ files = <<>> /\ dirs0 = {} /\ files0 = <<>>
    /\ content = <<>>
    /\ UnpackIdle
    /\ PackIdle
    /\ PayloadIdle
    /\ RequestIdle
    /\ ParserIdle
    /\ AskIdle
    /\ log_files = <<>>
    /\ clock = 0
    /\ config \in InitialConfigs
    /\ venv = NoVenv

\* main lines 791-817 around a command function: the configuration is loaded,
\* a configuration without models is reported, the function runs, the
\* configuration is stored by save_config unless that fails (saved), and the
\* process exits with 0 for True and 1 for False
RunConfigCmd(fn, args, r, saved) ==
    /\ pc = "shell"
    /\ config' = IF r.save /\ saved THEN r.config ELSE config
    /\ calls' = <<Call(fn, args, JNull)>>
    /\ diag' = (IF DOMAIN config.models = {}
                THEN <<ErrorLine("No models with API KEY configured.")>> ELSE <<>>)
               \o r.lines
               \o (IF r.save /\ ~saved THEN <<ErrorLine("Could not save config file")>> ELSE <<>>)
    /\ exit_status' = IF (r.save /\ saved) \/ (~r.save /\ r.value) THEN 0 ELSE 1
    /\ UNCHANGED <<pc, fsVars, unpackVars, packVars, payloadVars, requestVars, parserVars,
                   models_configured, model_name, model_config, prompt, log_enabled, ai_response,
                   log_files, clock, venv>>

\* clippy set_model [--default] name:key
SetModelCmd ==
    \E model_api \in ModelApiArgs, default \in BOOLEAN, saved \in BOOLEAN :
        RunConfigCmd("set_model_cmd", <<model_api, default>>,
                     set_model_cmd(model_api, default, config), saved)

\* clippy set_default name
SetDefaultCmd ==
    \E arg \in ModelArgs, saved \in BOOLEAN :
        RunConfigCmd("set_default_cmd", <<arg>>, set_default_cmd(arg, config), saved)

\* clippy remove_model name
RemoveModelCmd ==
    \E arg \in ModelArgs, saved \in BOOLEAN :
        RunConfigCmd("remove_model_cmd", <<arg>>, remove_model_cmd(arg, config), saved)

NextConfig == SetModelCmd \/ SetDefaultCmd \/ RemoveModelCmd

SpecConfig == InitConfig /\ [][NextConfig]_vars

----------------------------------------------------------------------------
(* venv_manager.py: ensure_venv *)

\* what a call hands back when it raises instead of returning
Raises(exc) == [t |-> "raise", s |-> exc, o |-> <<>>]

\* _get_venv_python_executable (lines 11-24) on posix, as a path under the project
VenvPython == JStr("venv/bin/python3")

\* the ways `python -m venv venv` (lines 58-63) can end: with status 0 and the
\* directory and its interpreter in place, with a non-zero status
\* (CalledProcessError) and nothing, the bare directory or the directory with
\* its interpreter left behind, or without running at all (FileNotFoundError)
VenvRuns ==
    {[raised |-> "", isdir |-> TRUE, python_exe |-> TRUE],
     [raised |-> "CalledProcessError", isdir |-> FALSE, python_exe |-> FALSE],
     [raised |-> "CalledProcessError", isdir |-> TRUE, python_exe |-> FALSE],
     [raised |-> "CalledProcessError", isdir |-> TRUE, python_exe |-> TRUE],
     [raised |-> "FileNotFoundError", isdir |-> FALSE, python_exe |-> FALSE]}

\* ensure_venv (lines 26-105) in the project state v: requirements_exist is
\* os.path.exists(requirements_path), run the outcome of the venv subprocess
\* and pip_ok that of `pip install -r requirements.txt`, both only used when
\* the code reaches them
ensure_venv(v, requirements_exist, run, pip_ok) ==
    LET created_venv_now == ~v.isdir /\ run.raised = ""
        v1 == IF v.isdir THEN v
              ELSE [isdir |-> run.isdir, python_exe |-> run.python_exe, installed |-> FALSE]
        creating == IF v.isdir THEN <<>>
                    ELSE <<"Virtual environment not found", "Creating virtual environment">>
    IN  IF ~v.isdir /\ run.raised # "" THEN
            [venv |-> v1, ret |-> Raises(run.raised), stdout |-> creating,
             stderr |-> <<IF run.raised = "CalledProcessError"
                          THEN "Error creating virtual environment"
                          ELSE "Error: The Python executable was not found.">>]
        ELSE LET made == IF v.isdir THEN creating
                         ELSE creating \o <<"Virtual environment created">>
             IN  IF ~v1.python_exe THEN
                     [venv |-> v1, ret |-> Raises("FileNotFoundError"), stdout |-> made, stderr |-> <<>>]
                 ELSE IF ~created_venv_now THEN
                     [venv |-> v1, ret |-> VenvPython, stdout |-> made, stderr |-> <<>>]
                 ELSE IF ~requirements_exist THEN
                     [venv |-> v1, ret |-> VenvPython,
                      stdout |-> made \o <<"requirements.txt not found. Skipping dependency installation.">>,
                      stderr |-> <<>>]
                 ELSE IF pip_ok THEN
                     [venv |-> [v1 EXCEPT !.installed = TRUE], ret |-> VenvPython,
                      stdout |-> made \o <<"Installing dependencies", "Dependencies installed successfully.">>,
                      stderr |-> <<>>]
                 ELSE
                     [venv |-> v1, ret |-> Raises("CalledProcessError"),
                      stdout |-> made \o <<"Installing dependencies">>,
                      stderr |-> <<"Error installing dependencies">>]

InitVenv ==
    /\ pc = "shell"
    /\ dirs = {} /\ files = <<>> /\ dirs0 = {} /\ files0 = <<>>
    /\ content = <<>>
    /\ UnpackIdle
    /\ PackIdle
    /\ PayloadIdle
    /\ RequestIdle
    /\ ParserIdle
    /\ AskIdle
    /\ ExtIdle

\* one call of ensure_venv(project_dir); calls keeps every call made so far,
\* stdout and diag the lines of the last one
EnsureVenv ==
    /\ pc = "shell"
    /\ Len(calls) < MaxCalls
    /\ \E requirements_exist \in BOOLEAN, run \in VenvRuns, pip_ok \in BOOLEAN :
           LET r == ensure_venv(venv, requirements_exist, run, pip_ok)
           IN  /\ venv' = r.venv
               /\ calls' = Append(calls, Call("ensure_venv", <<requirements_exist>>, r.ret))
               /\ stdout' = r.stdout
               /\ diag' = r.stderr
    /\ UNCHANGED <<pc, fsVars, content, matches, idx, outcomes, unpacked_count, packVars,
                   payloadVars, requestVars, parserVars, models_configured, model_name,
                   model_config, prompt, log_enabled, ai_response, exit_status,
                   log_files, clock, config>>

\* the user removes the venv directory between two calls, as the message of
\* clippy.py lines 23-27 asks
RemoveVenv ==
    /\ pc = "shell"
    /\ Len(calls) < MaxCalls
    /\ venv.isdir
    /\ venv' = NoVenv
    /\ calls' = Append(calls, Call("rm -rf venv", <<>>, JNull))
    /\ stdout' = <<>>
    /\ diag' = <<>>
    /\ UNCHANGED <<pc, fsVars, content, matches, idx, outcomes, unpacked_count, packVars,
                   payloadVars, requestVars, parserVars, models_configured, model_name,
                   model_config, prompt, log_enabled, ai_response, exit_status,
                   log_files, clock, config>>

NextVenv == EnsureVenv \/ RemoveVenv

SpecVenv == InitVenv /\ [][NextVenv]_vars

----------------------------------------------------------------------------
(* Claims about unpack_file *)

\* the position of the first newline at or after position i (0 if none)
NextNewline(s, i) ==
    LET at == {k \in i..Len(s) : s[k] = NL}
    IN  IF at = {} THEN 0 ELSE CHOOSE k \in at : \A j \in at : k <= j

\* the text of the line that starts at position i, without its newline
LineAt(s, i) ==
    LET n == NextNewline(s, i)
    IN  IF n = 0 THEN SubSeq(s, i, Len(s)) ELSE SubSeq(s, i, n - 1)

\* the characters between the newline that ends the marker line at position i
\* and the newline that precedes the next marker line (or the end of the text)
SpanAfterMarkerLine(s, i) ==
    LET n == NextNewline(s, i)
        stops == {e \in n..(Len(s) + 1) :
                    e = Len(s) + 1 \/ StartsWithAt(s, e, <<NL>> \o MARKER)}
        e == CHOOSE x \in stops : \A y \in stops : x <= y
    IN  IF e <= n THEN <<>> ELSE SubSeq(s, n + 1, e - 1)

\* C1: every entry unpack parses has as its content exactly the characters
\* between the newline ending its marker line and the newline before the next
\* marker line (or the end of the text), blank leading lines and empty content
\* included.
C1_ContentExact ==
    \A k \in 1..Len(matches) :
        matches[k].group2 = SpanAfterMarkerLine(content, matches[k].start)

\* the output directory unpack computes for a match
OutputDirectoryOf(m) == Front(CleanParts(Split(Strip(m.group1), SEP)))

\* C3 (state part): unpack creates no directory, every file it wrote lies in
\* '.' or in a directory that existed before, and at the end every entry of
\* the archive has been processed.
C3_DirsKept ==
    /\ dirs = dirs0
    /\ \A k \in 1..Len(outcomes) :
          outcomes[k].written =>
              /\ Front(outcomes[k].path) = ROOT \/ Front(outcomes[k].path) \in dirs0
              /\ outcomes[k].path \in DOMAIN files
    /\ pc = "done" => Len(outcomes) = Len(matches)

\* C3 (step part): an entry whose output directory is not '.' and does not
\* exist is skipped with a warning naming it, and the loop moves on to the
\* next entry.
C3_SkipStep ==
    (pc = "unpack_loop" /\ idx <= Len(matches)
        /\ OutputDirectoryOf(matches[idx]) # ROOT
        /\ CleanParts(Split(Strip(matches[idx].group1), SEP)) # <<>>
        /\ ~PathExists(dirs, files, OutputDirectoryOf(matches[idx])))
    => /\ files' = files /\ dirs' = dirs
       /\ idx' = idx + 1
       /\ pc' = "unpack_loop"
       /\ Len(outcomes') = Len(outcomes) + 1
       /\ LET o == outcomes'[Len(outcomes')]
          IN  /\ ~o.written
              /\ o.print = "Warning: Directory for file does not exist. Skipping this file."
              /\ o.filename = Strip(matches[idx].group1)
              /\ o.directory = OutputDirectoryOf(matches[idx])
              /\ stdout' = Append(stdout, o.print)

\* C3: unpack never creates a directory; an entry whose directory is missing
\* is skipped with a warning that names it and the later entries are still
\* processed.
C3_NeverCreatesDirectory == [](C3_DirsKept) /\ [][C3_SkipStep]_vars

\* C3 witness: an entry was skipped for its missing directory and a later
\* entry of the same archive was written.
C3_Witness ==
    \E j \in 1..Len(outcomes), k \in 1..Len(outcomes) :
        /\ j < k
        /\ outcomes[j].print = "Warning: Directory for file does not exist. Skipping this file."
        /\ outcomes[k].written

\* the display name on the marker line of a match: the rest of that line
MarkerLineName(s, m) ==
    LET line == LineAt(s, m.start)
    IN  Strip(SubSeq(line, Len(MARKER) + 1, Len(line)))

\* C4: an entry whose display name is empty or has only '', '.' and '..'
\* components is skipped with a warning and writes no file; a marker line with
\* nothing after the marker never causes a file to be written.
C4_EmptyNameSkipped ==
    \A k \in 1..Len(outcomes) :
        /\ CleanParts(Split(outcomes[k].filename, SEP)) = <<>>
              => /\ ~outcomes[k].written
                 /\ outcomes[k].print \in
                      {"Warning: Found an empty filename. Skipping this block.",
                       "Warning: Filename resulted in no valid path components. Skipping."}
        /\ CleanParts(Split(MarkerLineName(content, matches[k]), SEP)) = <<>>
              => ~outcomes[k].written

----------------------------------------------------------------------------
(* Claims about pack followed by unpack *)

\* the text unpack writes for a content: one newline appended if it lacks one
WithFinalNewline(text) == IF EndsWithNewline(text) THEN text ELSE text \o <<NL>>

\* C2: after pack and unpack, every packed entry has a file at its display
\* name whose content is the original content, with one newline appended if
\* the original did not end with one.
C2_RoundTrip ==
    pc = "done" =>
        \A k \in 1..Len(packed) :
            LET path == CleanParts(Split(packed[k].name, SEP))
            IN  /\ path \in DOMAIN files
                /\ files[path] = WithFinalNewline(packed[k].text)

----------------------------------------------------------------------------
(* Claims about the payload factories *)

AnthropicCalled == provider_type = "anthropic" /\ pc \in {"payload_built", "payload_raised"}
AnthropicBuilt  == provider_type = "anthropic" /\ pc = "payload_built"
OpenAIBuilt     == provider_type \in {"openai", "google"} /\ pc = "payload_built"

\* the positions of the input that remain after filtering: not a system
\* message, and not an assistant message before the first user message
Remaining(msgs) ==
    {p \in 1..Len(msgs) :
        /\ msgs[p].role \in {"user", "assistant"}
        /\ \E q \in 1..p : msgs[q].role = "user"}

\* the positions among S that start a run of same-role entries of S
RunStarts(msgs, S) ==
    {p \in S :
        LET before == {q \in S : q < p}
        IN  before = {} \/
            msgs[CHOOSE q \in before : \A r \in before : q >= r].role # msgs[p].role}

\* the k-th smallest element of a set of numbers
KthOf(S, k) == CHOOSE p \in S : Cardinality({q \in S : q < p}) = k - 1

\* out is the subsequence of msgs at the positions S
IsSubsequenceAt(out, msgs, S) ==
    /\ Len(out) = Cardinality(S)
    /\ \A k \in 1..Len(out) : out[k] = msgs[KthOf(S, k)]

\* only user and assistant roles, the first is user, adjacent roles differ
Alternates(out) ==
    /\ \A k \in 1..Len(out) : out[k].role \in {"user", "assistant"}
    /\ Len(out) > 0 => out[1].role = "user"
    /\ \A k \in 1..(Len(out) - 1) : out[k].role # out[k + 1].role

\* C5 as claimed: whenever construction succeeds, 'messages' alternates from a
\* user entry and is the subsequence of the input made of the first entry of
\* each run of same-role entries.
C5_Original ==
    AnthropicBuilt =>
        /\ Alternates(built.value.messages)
        /\ IsSubsequenceAt(built.value.messages, messages,
                           RunStarts(messages, Remaining(messages)))

\* C5 as amended: whenever construction succeeds, 'messages' alternates from a
\* user entry; if some message remains after filtering it is the subsequence
\* of the input made of the first entry of each run, and if none remains it is
\* the single placeholder user message.
C5_AlternatingSubsequence ==
    AnthropicBuilt =>
        /\ Alternates(built.value.messages)
        /\ Remaining(messages) # {} =>
              IsSubsequenceAt(built.value.messages, messages,
                              RunStarts(messages, Remaining(messages)))
        /\ Remaining(messages) = {} => built.value.messages = <<PlaceholderMessage>>

\* C5 witness: a leading assistant entry was dropped and a run of two user
\* entries was collapsed to its first entry.
C5_Witness ==
    /\ AnthropicBuilt
    /\ Len(messages) = 3
    /\ messages[1].role = "assistant"
    /\ messages[2] = [role |-> "user", content |-> "hi"]
    /\ messages[3] = [role |-> "user", content |-> ""]
    /\ built.value.messages = <<messages[2]>>

HasSystemMessage(msgs) == \E k \in 1..Len(msgs) : msgs[k].role = "system"

\* C6: when the input has a system message and no message remains after
\* filtering, construction succeeds with exactly the placeholder user message
\* and a 'system' field equal to the system message's content, whatever that
\* content is.
C6_PlaceholderForSystemOnly ==
    (AnthropicCalled /\ HasSystemMessage(messages) /\ Remaining(messages) = {}) =>
        /\ built.raised = ""
        /\ built.value.messages = <<PlaceholderMessage>>
        /\ "system" \in DOMAIN built.value
        /\ built.value.system = FirstSystemPrompt(messages).val

\* C7: construction fails with a validation error exactly when no message
\* remains after filtering and the input has no system message.
C7_FailsExactlyWhenNothingRemains ==
    AnthropicCalled =>
        /\ built.raised = "ValueError" <=>
              (Remaining(messages) = {} /\ ~HasSystemMessage(messages))
        /\ built.raised # "" => built.value = <<>>
        /\ built.raised = "" => "messages" \in DOMAIN built.value

\* C8: the Anthropic payload always has max_tokens: the caller's value when one
\* was given (0 included), 1024 when it was None.
C8_MaxTokensDefault ==
    AnthropicBuilt =>
        /\ "max_tokens" \in DOMAIN built.value
        /\ built.value.max_tokens =
              (IF max_tokens.isNone THEN 1024 ELSE max_tokens.val)

\* C9: the OpenAI payload has model, messages and temperature equal to the
\* arguments, and has max_tokens exactly when the argument is not None, equal
\* to the argument.
C9_OpenAIPayload ==
    (provider_type \in {"openai", "google"} /\ pc # "payload_start") =>
        /\ pc = "payload_built"
        /\ DOMAIN built.value \subseteq {"model", "messages", "temperature", "max_tokens"}
        /\ built.value.model = model
        /\ built.value.messages = messages
        /\ built.value.temperature = temperature
        /\ "max_tokens" \in DOMAIN built.value <=> ~max_tokens.isNone
        /\ ~max_tokens.isNone => built.value.max_tokens = max_tokens.val

\* C9 witness: a payload built from a list with a system message and
\* max_tokens = 0 carries max_tokens = 0.
C9_Witness ==
    /\ OpenAIBuilt
    /\ max_tokens = Some(0)
    /\ HasSystemMessage(messages)
    /\ built.value.max_tokens = 0

----------------------------------------------------------------------------
(* Claims about make_request *)

\* C10: when the POST returns a success status with an empty body or a body
\* that is not JSON, make_request fails with a ValueError-class error.
C10_BadBodyIsValueError ==
    (pc = "request_done" /\ response # NoResponse
        /\ ~IsErrorStatus(response.status_code) /\ ~response.valid)
    => /\ ~result.returned
       /\ IsSubclass(result.raised.cls, "ValueError")

\* the error detail a server's error body provides: the message of an 'error'
\* object, the 'error' string itself, or the 'detail' field
ServerDetail(resp) ==
    IF ~resp.valid \/ resp.json.t # "obj" THEN JNull
    ELSE LET error == Get(resp.json, "error", JNull)
         IN  IF error.t = "obj" /\ Truthy(Get(error, "message", JNull))
             THEN Get(error, "message", JNull)
             ELSE IF error.t = "str" /\ Truthy(error) THEN error
             ELSE Get(resp.json, "detail", JNull)

\* C11: every response with an error status, whatever the shape of its body,
\* makes make_request fail with a ConnectionError that carries the status code
\* and the server's error detail when the body has one; a timeout of the POST
\* makes it fail with TimeoutError.
C11_HTTPFailureIsConnectionError ==
    /\ (pc = "request_done" /\ response # NoResponse
            /\ IsErrorStatus(response.status_code))
       => /\ ~result.returned
          /\ result.raised.cls = "ConnectionError"
          /\ result.raised.status = response.status_code
          /\ Truthy(ServerDetail(response))
                => result.raised.detail = ServerDetail(response)
    /\ (pc = "request_done" /\ IsSubclass(in_flight.cls, "requests.Timeout"))
       => result.raised.cls = "TimeoutError"

----------------------------------------------------------------------------
(* Claims about the response parsers *)

OpenAIParsed == pc # "parser_start" /\ provider_type \in {"openai", "google"}
AnthropicParsed == pc # "parser_start" /\ provider_type = "anthropic"
HasKey(resp, key) == resp.t = "obj" /\ key \in DOMAIN resp.o

\* C12: for every response that has an 'error' key, with or without 'choices',
\* the OpenAI parser returns nothing and fails with an API error that carries
\* the 'message' field of an 'error' object, or the 'error' string itself.
C12_OpenAIErrorKey ==
    (OpenAIParsed /\ HasKey(response_data, "error")) =>
        LET error == response_data.o["error"]
        IN  /\ pc = "parser_raised"
            /\ parsed.raised = "ValueError" /\ parsed.kind = "api"
            /\ parsed.value = JNull
            /\ HasKey(error, "message") => parsed.msg = error.o["message"]
            /\ error.t = "str" => parsed.msg = error

\* C12 witness: {"error": "rate limited"} together with a well-formed 'choices'
\* failed with the API error carrying "rate limited".
C12_Witness ==
    /\ OpenAIParsed
    /\ HasKey(response_data, "error") /\ HasKey(response_data, "choices")
    /\ response_data.o["error"] = JStr("rate limited")
    /\ response_data.o["choices"] = JList(<<JObj("message" :> JObj("content" :> JStr("hi")))>>)
    /\ parsed.kind = "api" /\ parsed.msg = JStr("rate limited")

\* the first choice of a response, when 'choices' is a non-empty list of dicts
HasFirstChoice(resp) ==
    /\ HasKey(resp, "choices")
    /\ resp.o["choices"].t = "list" /\ Len(resp.o["choices"].o) > 0
    /\ resp.o["choices"].o[1].t = "obj"
FirstChoice(resp) == resp.o["choices"].o[1]
HasMessageContent(choice) ==
    /\ HasKey(choice, "message") /\ HasKey(choice.o["message"], "content")
    /\ choice.o["message"].o["content"].t # "null"
HasText(choice) == HasKey(choice, "text") /\ choice.o["text"].t # "null"

\* C13: for every response without an 'error' key the OpenAI parser returns
\* choices[0].message.content when present, else choices[0].text when present,
\* and fails with a parse error when the shape is missing (no 'choices', an
\* empty list, a first choice with neither); it never returns None then.
C13_OpenAIContentOrParseError ==
    (OpenAIParsed /\ ~HasKey(response_data, "error")) =>
        IF HasFirstChoice(response_data) /\ HasMessageContent(FirstChoice(response_data))
        THEN parsed = Returned(FirstChoice(response_data).o["message"].o["content"])
        ELSE IF HasFirstChoice(response_data) /\ HasText(FirstChoice(response_data))
        THEN parsed = Returned(FirstChoice(response_data).o["text"])
        ELSE parsed.raised = "ValueError" /\ parsed.kind = "parse"

\* the texts, in order, of the blocks whose type is 'text'
RECURSIVE TextOfBlocks(_)
TextOfBlocks(blocks) ==
    IF blocks = <<>> THEN ""
    ELSE LET block == Head(blocks)
         IN  (IF HasKey(block, "type") /\ block.o["type"] = JStr("text") /\ HasKey(block, "text")
              THEN block.o["text"].s ELSE "") \o TextOfBlocks(Tail(blocks))

\* C14: the Anthropic parser fails with an API error when 'type' is 'error';
\* otherwise it returns the texts of the text blocks joined in order, and None
\* (no error) when 'content' is absent, empty or has no text.
C14_AnthropicTextBlocks ==
    (AnthropicParsed /\ response_data.t = "obj") =>
        IF HasKey(response_data, "type") /\ response_data.o["type"] = JStr("error")
        THEN parsed.raised = "ValueError" /\ parsed.kind = "api"
        ELSE LET joined == IF HasKey(response_data, "content")
                           THEN TextOfBlocks(response_data.o["content"].o) ELSE ""
             IN  parsed = Returned(IF joined = "" THEN JNull ELSE JStr(joined))

----------------------------------------------------------------------------
(* Claims about get_provider_type_for_model *)

NamePrefix(str) ==
    CASE str = "gpt-"    -> <<"g", "p", "t", "-">>
      [] str = "gemini-" -> <<"g", "e", "m", "i", "n", "i", "-">>
      [] str = "claude-" -> <<"c", "l", "a", "u", "d", "e", "-">>
NameStartsWith(str) ==
    /\ Len(model_name) >= Len(NamePrefix(str))
    /\ SubSeq(model_name, 1, Len(NamePrefix(str))) = NamePrefix(str)

\* C15: a name starting with 'gpt-' resolves to 'openai', with 'gemini-' to
\* 'google', with 'claude-' to 'anthropic'; every other name, the empty one
\* included, resolves to 'openai' with a warning and no failure; the result is
\* always a key of the provider table.
C15_ResolveProviderKey ==
    pc = "resolve_done" =>
        /\ NameStartsWith("gpt-") => provider_type = "openai"
        /\ NameStartsWith("gemini-") => provider_type = "google"
        /\ NameStartsWith("claude-") => provider_type = "anthropic"
        /\ (~NameStartsWith("gpt-") /\ ~NameStartsWith("gemini-") /\ ~NameStartsWith("claude-"))
              => /\ provider_type = "openai"
                 /\ Len(diag) = 1 /\ diag[1].tag = "Warning:"
        /\ provider_type \in ProviderKeys
        /\ \A k \in 1..Len(diag) : diag[k].tag # "Error:"

\* C15 witness: a name that holds 'gpt-' but does not start with it was
\* resolved to the default key with a warning.
C15_Witness ==
    /\ pc = "resolve_done"
    /\ model_name = <<"4", "g", "p", "t", "-">>
    /\ provider_type = "openai"
    /\ Len(diag) = 1 /\ diag[1].tag = "Warning:"

----------------------------------------------------------------------------
(* Claims about the ask command *)

CallsOf(fns) == {k \in 1..Len(calls) : calls[k].fn \in fns}
HasErrorReport == \E k \in 1..Len(diag) : diag[k].tag = "Error:"
HasTraceback == \E k \in 1..Len(diag) : diag[k].tag = "Traceback"

\* the failures of an ask: an unknown provider key, a payload that could not
\* be built, a request that raised, a parser that raised or found no text, a
\* dedicated client that is missing, raised or returned no text
UnknownProviderKey == provider_type # "" /\ provider_type \notin ProviderKeys
RequestFailed == result.raised.cls # ""
ParserFailed == parsed.raised # ""
NothingParsed == \E k \in CallsOf({"response_parser"}) : calls[k].ret.t = "null"
GeminiFailed ==
    \/ \E k \in CallsOf({"generate_content"}) : calls[k].ret.t \in {"raised", "null"}
    \/ CallsOf({"ask_gemini"}) # {} /\ CallsOf({"generate_content"}) = {}
AskFailed ==
    \/ UnknownProviderKey
    \/ built.raised # ""
    \/ RequestFailed
    \/ ParserFailed
    \/ NothingParsed
    \/ GeminiFailed

\* C16: every failure of an ask is caught at the command boundary, is reported
\* on stderr with the 'Error:' prefix and makes the process exit with a
\* non-zero status.
C16_FailuresReported ==
    (pc = "exited" /\ AskFailed) =>
        /\ exit_status # 0
        /\ HasErrorReport
        /\ ~HasTraceback

\* the outbound requests: the POST of the generic path and the call of the
\* dedicated client
Outbound == CallsOf({"session.post", "generate_content"})

\* C17 (state part): at most one outbound request has been issued.
C17_AtMostOneRequest == Cardinality(Outbound) <= 1

\* C17 (step part): once the request has failed, no step issues a request.
C17_NoRequestAfterFailure ==
    (RequestFailed \/ ParserFailed) =>
        Cardinality({k \in 1..Len(calls') : calls'[k].fn \in {"session.post", "generate_content"}})
            = Cardinality(Outbound)

\* C17 (progress part): a failed request leads to the command's end, with the
\* failure reported.
C17_FailureEndsCommand ==
    (RequestFailed \/ ParserFailed)
        ~> (pc = "exited" /\ exit_status = 1 /\ HasErrorReport)

C18_GoogleBypassesGenericPath ==
    /\ provider_type = "google" =>
          /\ CallsOf({"header_factory", "payload_factory", "session.post", "response_parser"}) = {}
          /\ response = NoResponse /\ result = NoResult /\ parsed = NoParse
          /\ pc \notin {"ask_cmd", "ask_ai"} => CallsOf({"ask_gemini"}) # {}
          /\ \A k \in CallsOf({"generate_content"}) :
                /\ calls[k].args = <<model_name, prompt, SYSTEM_PROMPT>>
                /\ (pc \in {"ask_cmd_tail", "exited"} /\ calls[k].ret.t # "raised")
                      => ai_response = calls[k].ret
    /\ provider_type \in ProviderKeys \ {"google"} =>
          CallsOf({"ask_gemini", "generate_content"}) = {}

\* C18 witness: an ask with the key 'google' ended with the text the dedicated
\* client returned.
C18_Witness ==
    /\ pc = "exited" /\ exit_status = 0
    /\ provider_type = "google"
    /\ \E k \in CallsOf({"generate_content"}) : calls[k].ret = JStr("hello")
    /\ ai_response = JStr("hello")

----------------------------------------------------------------------------
(* Claims about the archive pack writes *)

\* pack has written its archive
PackWritten == pc \notin {"pack_start", "pack_loop", "pack_exit_1"} /\ packed # <<>>

\* the paths of the root file's directives, in order of first appearance, that
\* name a readable file not yet emitted
RECURSIVE FirstReadable(_, _)
FirstReadable(paths, seen) ==
    IF paths = <<>> THEN <<>>
    ELSE LET abs == AbsPath(Head(paths))
         IN  IF abs \in seen \/ abs \notin DOMAIN files0
             THEN FirstReadable(Tail(paths), seen)
             ELSE <<Head(paths)>> \o FirstReadable(Tail(paths), seen \cup {abs})

\* C19: the archive lists the root file first, then the readable files the
\* root file's directives name, in order of first appearance; no two entries
\* have the same resolved path; directives of included files add no entry.
C19_RootFirstNoDuplicates ==
    PackWritten =>
        LET root_abs == AbsPath(main_cpp_file_arg)
            directives == extract_non_system_includes(files0[root_abs])
        IN  /\ packed[1].name = main_cpp_file_arg /\ packed[1].abs = root_abs
            /\ [k \in 1..(Len(packed) - 1) |-> packed[k + 1].name]
                  = FirstReadable(directives, {root_abs})
            /\ \A i, j \in 1..Len(packed) : i # j => packed[i].abs # packed[j].abs
            /\ \A k \in 2..Len(packed) :
                  \E d \in 1..Len(directives) : directives[d] = packed[k].name

\* C19 witness: the root names a and ./a, a has a directive of its own for the
\* readable file d/b, and the archive holds the root and a only.
C19_Witness ==
    /\ PackWritten
    /\ extract_non_system_includes(files0[<<NameR>>]) = <<NameA, <<".", "/", "a">>>>
    /\ extract_non_system_includes(files0[PathOf("a")]) = <<NameDB>>
    /\ <<<<"d">>, <<"b">>>> \in DOMAIN files0
    /\ [k \in 1..Len(packed) |-> packed[k].name] = <<NameR, NameA>>

\* the entries, each rendered as the marker, the name, a newline and the
\* content, with one newline between two entries
RECURSIVE JoinedEntries(_)
JoinedEntries(entries) ==
    IF entries = <<>> THEN <<>>
    ELSE MARKER \o Head(entries).name \o <<NL>> \o files0[Head(entries).abs]
            \o (IF Len(entries) > 1 THEN <<NL>> \o JoinedEntries(Tail(entries)) ELSE <<>>)

LastContent == files0[packed[Len(packed)].abs]

\* C20 as claimed: the text written is the rendered entries joined by one
\* newline, plus one newline exactly when the last entry's content does not
\* end with a newline; it ends with a newline.
C20_Original ==
    PackWritten =>
        /\ pack_out = JoinedEntries(packed)
                        \o (IF ~EndsWithNewline(LastContent) THEN <<NL>> ELSE <<>>)
        /\ EndsWithNewline(pack_out)

\* C20 as amended: the text written is the rendered entries joined by one
\* newline, plus one newline exactly when the last entry's content is not
\* empty and does not end with a newline (after an empty content the text
\* ends with the newline of the marker line); it ends with a newline.
C20_ArchiveText ==
    PackWritten =>
        /\ pack_out = JoinedEntries(packed)
                        \o (IF LastContent # <<>> /\ ~EndsWithNewline(LastContent)
                            THEN <<NL>> ELSE <<>>)
        /\ EndsWithNewline(pack_out)

\* C20 witness: an archive of two entries whose last content has no final
\* newline, written with the extra newline.
C20_Witness ==
    /\ PackWritten
    /\ Len(packed) = 2
    /\ LastContent # <<>> /\ ~EndsWithNewline(LastContent)
    /\ pack_out = JoinedEntries(packed) \o <<NL>>

----------------------------------------------------------------------------
(* Claims about files pack cannot read *)

RootReadable == AbsPath(main_cpp_file_arg) \in DOMAIN files0

\* the paths of the directives of the root file
RootDirectives ==
    IF RootReadable THEN extract_non_system_includes(files0[AbsPath(main_cpp_file_arg)])
    ELSE <<>>

\* the positions of the directives that name no readable file
UnreadableDirectives ==
    {d \in 1..Len(RootDirectives) : AbsPath(RootDirectives[d]) \notin DOMAIN files0}

\* the lines read_file_content writes to stderr
ReadDiagnostics == {"Warning: File not found", "Error reading file"}

\* C21: an include that cannot be read gives one line on stderr and no entry,
\* and the run goes on: every readable include is still emitted, in order, and
\* pack ends normally. Pack exits with status 1 exactly when the root file
\* cannot be read, and then nothing is written to stdout.
C21_UnreadableIncludeNotFatal ==
    /\ pc = "pack_exit_1" <=> (pc # "pack_start" /\ ~RootReadable)
    /\ pc = "pack_exit_1" =>
          /\ pack_out = <<>> /\ output_parts = <<>>
          /\ stderr[Len(stderr)] = "Error: Could not read the main C++ file"
    /\ pc = "pack_loop" =>
          \A d \in UnreadableDirectives :
              d < inc_i => /\ \E k \in 1..Len(stderr) : stderr[k] \in ReadDiagnostics
                           /\ \A k \in 1..Len(packed) :
                                  packed[k].abs # AbsPath(RootDirectives[d])
    /\ PackWritten =>
          /\ Cardinality({k \in 1..Len(stderr) : stderr[k] \in ReadDiagnostics})
                = Cardinality(UnreadableDirectives)
          /\ \A d \in UnreadableDirectives :
                \A k \in 1..Len(packed) : packed[k].name # RootDirectives[d]
          /\ \A d \in 1..Len(RootDirectives) :
                d \notin UnreadableDirectives =>
                    \E k \in 1..Len(packed) : packed[k].abs = AbsPath(RootDirectives[d])
          /\ [k \in 1..(Len(packed) - 1) |-> packed[k + 1].name]
                = FirstReadable(RootDirectives, {AbsPath(main_cpp_file_arg)})
          /\ pack_out # <<>>

\* C21 witness: the root names the missing file m and then a; the archive
\* written holds the root and a, and stderr holds the warning for m.
C21_Witness ==
    /\ pc = "pack_done"
    /\ RootDirectives = <<<<"m">>, NameA>>
    /\ [k \in 1..Len(packed) |-> packed[k].name] = <<NameR, NameA>>
    /\ stderr = <<"Warning: File not found">>

----------------------------------------------------------------------------
(* Claims about entries unpack fails to write *)

\* the lines unpack prints for an entry whose file it failed to write
WriteErrors == {"Error writing file", "An unexpected error occurred while processing"}

\* the loop body has just failed to write the file of an entry
WriteFailed ==
    /\ Len(outcomes') = Len(outcomes) + 1
    /\ outcomes'[Len(outcomes')].print \in WriteErrors

\* C22: a failure to write the file of an entry is printed for that entry and
\* does not end the run: every entry of the archive gets its outcome, and the
\* step that fails leaves the file of every earlier written entry as it was.
C22_WriteFailureIsLocal ==
    /\ [](pc = "done" => Len(outcomes) = Len(matches))
    /\ [][WriteFailed =>
            \A k \in 1..Len(outcomes) :
                outcomes[k].written =>
                    /\ outcomes[k].path \in DOMAIN files'
                    /\ files'[outcomes[k].path] = files[outcomes[k].path]]_vars

----------------------------------------------------------------------------
(* Claims about running unpack again *)

\* C23: a second run of unpack on the same archive in the same directory
\* leaves the files, their contents and the directories as the first run
\* left them.
C23_SecondRunChangesNothing ==
    (Runs = 2 /\ pc = "done") => (files = files0 /\ dirs = dirs0)

\* C23 witness: the first run skipped the entry a/b for want of a directory a
\* and then wrote the file a; in the second run the entry a/b found a, failed
\* to open a/b, and a was written again.
C23_Witness ==
    /\ Runs = 2 /\ pc = "done"
    /\ \E k \in 1..Len(stdout) :
          stdout[k] = "Warning: Directory for file does not exist. Skipping this file."
    /\ Len(outcomes) = 2
    /\ outcomes[1].print = "Error writing file" /\ outcomes[1].directory = PathOf("a")
    /\ outcomes[2].written /\ outcomes[2].path = PathOf("a")

----------------------------------------------------------------------------
(* Claims about the entries unpack parses *)

\* the positions of the text where a line starts with the marker
MarkerLines(text) ==
    {i \in 1..Len(text) : StartsWithAt(text, i, MARKER) /\ (i = 1 \/ text[i - 1] = NL)}

\* C24: the entries parsed are exactly the lines of the archive that start
\* with the marker, one entry for each, and the content of no entry holds a
\* line that starts with the marker.
C24_OneEntryPerMarkerLine ==
    pc \in {"unpack_loop", "done"} =>
        /\ {matches[k].start : k \in 1..Len(matches)} = MarkerLines(content)
        /\ Len(matches) = Cardinality(MarkerLines(content))
        /\ \A k \in 1..Len(matches) : MarkerLines(matches[k].group2) = {}

----------------------------------------------------------------------------
(* Claims about the paths unpack writes to *)

\* the components of a path as the platform resolves it
RECURSIVE SplitOn(_, _)
SplitOn(path, seps) ==
    LET at == {k \in 1..Len(path) : path[k] \in seps}
    IN  IF at = {} THEN <<path>>
        ELSE LET k == CHOOSE j \in at : \A l \in at : j <= l
             IN  <<SubSeq(path, 1, k - 1)>> \o SplitOn(SubSeq(path, k + 1, Len(path)), seps)

\* C25: the path unpack opens is made of the components of the display name
\* that are not '', '.' or '..', in their order; it is not absolute and has
\* no '..' component.
C25_PathSafety ==
    \A k \in 1..Len(outcomes) :
        (pc \in {"path_loop", "path_done"} /\ outcomes[k].opened) =>
            LET o     == outcomes[k]
                comps == SplitOn(o.path, AllSeps(o.os_sep))
            IN  /\ o.path[1] \notin AllSeps(o.os_sep)
                /\ \A i \in 1..Len(comps) : comps[i] # <<".", ".">>
                /\ CleanParts(comps) = CleanParts(SplitOn(o.filename, AllSeps(o.os_sep)))

\* the same on posix only
C25_PathSafetyPosix ==
    \A k \in 1..Len(outcomes) :
        (pc \in {"path_loop", "path_done"} /\ outcomes[k].opened /\ outcomes[k].os_sep = "/") =>
            LET o     == outcomes[k]
                comps == SplitOn(o.path, {"/"})
            IN  /\ o.path[1] # "/"
                /\ \A i \in 1..Len(comps) : comps[i] \notin {<<>>, <<".", ".">>}
                       /\ (comps[i] = <<".">> => i = 1 /\ Len(comps) = 2)
                /\ CleanParts(comps) = CleanParts(Split(o.filename, "/"))

----------------------------------------------------------------------------
(* Claims about the interaction log *)

\* the command of the step was an ask that called save_log_entry, and
\* save_log_entry reported no failure
LoggedAsk ==
    /\ clock' = clock
    /\ Len(calls') = 2
    /\ calls'[2].fn = "save_log_entry"
    /\ diag' = <<>>

\* the command of the step was an ask that called ask_ai while logging was
\* disabled
UnloggedAsk ==
    /\ clock' = clock
    /\ Len(calls') = 1
    /\ calls'[1].fn = "ask_ai"

\* C26: an ask that saves its entry adds exactly one entry to the log and
\* leaves every earlier entry present and unchanged; an ask run while logging
\* is disabled changes nothing in the log.
C26_AppendOnly ==
    /\ [][LoggedAsk =>
            /\ Cardinality(DOMAIN log_files') = Cardinality(DOMAIN log_files) + 1
            /\ \A t \in DOMAIN log_files :
                  t \in DOMAIN log_files' /\ log_files'[t] = log_files[t]]_vars
    /\ [][UnloggedAsk => log_files' = log_files]_vars

----------------------------------------------------------------------------
(* Claims about 'log clear' *)

\* the command of the step was 'log clear' and no deletion was reported as
\* failed; ClearCount is its count
ClearRan ==
    /\ clock' = clock
    /\ Len(calls') = 1
    /\ calls'[1].fn = "log_clear_cmd"
    /\ \A k \in 1..Len(diag') : diag'[k] # ErrorLine("Failed to delete log file")

ClearCount == calls'[1].args[1]

\* the n oldest and the n newest entries of the log before the step
Oldest(n) == Range(SubSeq(SortAsc(DOMAIN log_files), 1, n))
Newest(n) ==
    LET sorted == SortAsc(DOMAIN log_files)
    IN  Range(SubSeq(sorted, Len(sorted) - n + 1, Len(sorted)))

ClearStep ==
    /\ clock' = clock
    /\ Len(calls') = 1
    /\ calls'[1].fn = "log_clear_cmd"

----------------------------------------------------------------------------
(* Claims about the stored configuration *)

\* the default pointer is unset or names a configured model
DefaultValid ==
    ~config.default_model.set \/ config.default_model.name \in DOMAIN config.models

\* C27: after any sequence of set_model, set_default and remove_model
\* commands the default pointer is unset or names a configured model, and a
\* command that fails leaves the stored models and the pointer unchanged.
C27_DefaultPointsToModel ==
    /\ [](pc = "shell" => DefaultValid)
    /\ [][exit_status' = 1 => config' = config]_vars

\* C27 witness: remove_model has removed the default model a, b is still
\* configured and the pointer is unset.
C27_Witness ==
    /\ calls = <<Call("remove_model_cmd", <<<<"a">>>>, JNull)>>
    /\ exit_status = 0
    /\ DOMAIN config.models = {<<"b">>}
    /\ config.default_model = NoName
    /\ diag = <<WarnLine("Removed model was the default.")>>

----------------------------------------------------------------------------
(* Claims about ensure_venv *)

\* the step is a call of ensure_venv
EnsureStep ==
    /\ Len(calls') = Len(calls) + 1
    /\ calls'[Len(calls')].fn = "ensure_venv"

\* the call of the step returned the interpreter path while requirements.txt exists
ReturnedWithRequirements ==
    /\ EnsureStep
    /\ calls'[Len(calls')].ret = VenvPython
    /\ calls'[Len(calls')].args = <<TRUE>>

\* C29: whenever a call of ensure_venv returns the interpreter path, the
\* dependencies of requirements.txt have been installed into the venv by a
\* successful installation step; a call that finds the venv directory present
\* creates nothing and runs no installation.
C29_ReturnedVenvHasDependencies ==
    /\ [][ReturnedWithRequirements => venv'.installed]_vars
    /\ [][(EnsureStep /\ venv.isdir) => (venv' = venv /\ stdout' = <<>>)]_vars

====
